---- MODULE Spec2Model ----
(***************************************************************************)
(* A model of ComprehensiveCodebaseScanner                                 *)
(* (src/tools/analyzers/comprehensive_scanner.py) and of the upload and    *)
(* chat handlers of the web backend (src/web/backend/main.py).             *)
(*                                                                         *)
(* The module holds these state machines over one set of variables:        *)
(*   SpecCycles  _detect_circular_dependencies applied to a relationship   *)
(*               graph drawn from a bounded set of graphs;                 *)
(*   SpecDup     _find_duplicate_blocks applied to two file contents drawn *)
(*               from a bounded set of contents;                           *)
(*   SpecCollect _collect_all_code_files applied to the files a walk of    *)
(*               the root yields, in any order;                            *)
(*   SpecLanguage _detect_file_language applied to a path and the pattern  *)
(*               counts of a content;                                      *)
(*   SpecScan, SpecFanOut, SpecRelations, SpecTesting, SpecScores,         *)
(*   SpecSeverities, SpecClean, SpecRoots                                  *)
(*               scan_codebase: the asyncio tasks of                       *)
(*               _analyze_files_parallel and the stages that follow them,  *)
(*               each on its own family of roots;                          *)
(*   SpecWeb     uploads, their background analyses and chat queries.      *)
(* A state machine leaves the variables of the others at their idle value. *)
(***************************************************************************)
EXTENDS Integers, Sequences, FiniteSets, TLC

VARIABLES
    \* ---- the web backend (src/web/backend/main.py)
    analysis_contexts,  \* the global dict, in insertion order: analysis_id k is entry k
    analysis_cache,     \* the global dict analysis_id -> status record
    session_cache,      \* the global dict session_id -> list of answered queries
    background_tasks,   \* the run_real_analysis task of every analysis_id
    http_response,      \* what the last request handler returned or raised
    uploaded_by,        \* the session of the client that sent upload k (no
                        \* request or handler carries it)
    \* ---- _detect_file_language on its own
    lpc,            \* "input" before the call, "returned" after it
    lang_path,      \* the file_path argument
    lang_scores,    \* the occurrences of each language's patterns in content
    detected_language,  \* the language returned
    \* ---- _detect_circular_dependencies on its own
    cpc,            \* "input" before the call, "returned" after it
    graph,          \* the relationships argument: node -> list of nodes
    all_cycles,     \* the list the call returned
    \* ---- _find_duplicate_blocks on its own
    dpc,            \* "input" before the call, "returned" after it
    content1,       \* first file: [lines, newline_at_end]
    content2,       \* second file
    dup_blocks,     \* the list the call returned
    \* ---- _collect_all_code_files on its own
    wpc,            \* "input" before the call, "returned" after it
    walk,           \* the paths of the files root.rglob('*') yields, in its order
    code_files,     \* the list the call returned
    \* ---- scan_codebase
    pc,             \* position of the scan_codebase coroutine
    root_kind,      \* what the path argument names: "directory", "file", "missing"
    hash_seed,      \* the seed of str hashes the interpreter drew at its start
    disk,           \* the files at or under the path, in sorted path order
    all_files,      \* scan_codebase's all_files (indices into disk)
    tasks,          \* _analyze_files_parallel's tasks: one asyncio task per file
    batch_i,        \* _analyze_files_parallel's loop variable i (0-based)
    results,        \* _analyze_files_parallel's results dict
    stages_done,    \* the stages of scan_codebase whose await has returned
    file_analyses,  \* scan_codebase's file_analyses
    relationships,  \* scan_codebase's relationships
    duplicates,     \* scan_codebase's duplicates
    architecture_issues,
    testing_gaps,
    overall_scores,
    returned        \* the CodebaseAnalysis scan_codebase returned

cycleVars == <<cpc, graph, all_cycles>>
dupVars == <<dpc, content1, content2, dup_blocks>>
collectVars == <<wpc, walk, code_files>>
scanVars == <<pc, root_kind, hash_seed, disk, all_files, tasks, batch_i, results, stages_done,
              file_analyses, relationships, duplicates, architecture_issues,
              testing_gaps, overall_scores, returned>>
langVars == <<lpc, lang_path, lang_scores, detected_language>>
webVars == <<analysis_contexts, analysis_cache, session_cache, background_tasks, http_response, uploaded_by>>
vars == <<cycleVars, dupVars, collectVars, scanVars, langVars, webVars>>

NoValue == "none"

(***************************************************************************)
(* Helpers on sequences.                                                   *)
(***************************************************************************)
Range(s) == {s[k] : k \in 1..Len(s)}

\* Python's `x in list`
InList(x, s) == \E k \in 1..Len(s) : s[k] = x

\* Python's list.index(x), 1-based: the first position holding x
IndexOf(s, x) == CHOOSE k \in 1..Len(s) : s[k] = x /\ \A j \in 1..(k - 1) : s[j] # x

Min(a, b) == IF a < b THEN a ELSE b
Max(a, b) == IF a > b THEN a ELSE b

\* The keys of a dict in iteration order.  Every dict of the scanner is filled
\* in ascending file order, so its iteration order is the ascending order.
RECURSIVE SortedSeq(_)
SortedSeq(S) ==
    IF S = {} THEN <<>>
    ELSE LET m == CHOOSE x \in S : \A y \in S : x <= y
         IN <<m>> \o SortedSeq(S \ {m})

\* dict.get(key, [])
GetList(d, key) == IF key \in DOMAIN d THEN d[key] ELSE <<>>

(***************************************************************************)
(* _detect_circular_dependencies                                           *)
(***************************************************************************)
RECURSIVE dfs(_, _, _, _), dfs_neighbors(_, _, _, _, _, _)

\* dfs reporting the whole path instead of the part from the repeated node on.
dfs_whole_path(rels, node, path, visited) ==
    IF InList(node, path)
    THEN [cycles |-> << path \o <<node>> >>, visited |-> visited]
    ELSE IF node \in visited
    THEN [cycles |-> <<>>, visited |-> visited]
    ELSE dfs_neighbors(rels, GetList(rels, node), 1, Append(path, node),
                       visited \cup {node}, <<>>)

\* The inner function dfs(node, path, visited).  Python mutates `visited` in
\* place and restores `path` on return, so the model returns the cycles
\* together with the visited set the caller goes on with.
dfs(rels, node, path, visited) ==
    IF InList(node, path)
    THEN [cycles |-> << SubSeq(path, IndexOf(path, node), Len(path)) \o <<node>> >>,
          visited |-> visited]
    ELSE IF node \in visited
    THEN [cycles |-> <<>>, visited |-> visited]
    ELSE dfs_neighbors(rels, GetList(rels, node), 1, Append(path, node),
                       visited \cup {node}, <<>>)

\* The loop `for neighbor in relationships.get(node, [])` of dfs, from the
\* k-th neighbor on.
dfs_neighbors(rels, neighbors, k, path, visited, cycles) ==
    IF k > Len(neighbors)
    THEN [cycles |-> cycles, visited |-> visited]
    ELSE LET r == dfs(rels, neighbors[k], path, visited)
         IN dfs_neighbors(rels, neighbors, k + 1, path, r.visited,
                          cycles \o r.cycles)

\* The loop `for node in relationships` over the roots, from the k-th key on.
RECURSIVE detect_roots(_, _, _, _, _)

\* The root loop with a visited set of its own for every root.
detect_roots_fresh_visited(rels, keys, k, visited, cycles) ==
    IF k > Len(keys)
    THEN cycles
    ELSE LET r == dfs(rels, keys[k], <<>>, {})
         IN detect_roots(rels, keys, k + 1, {}, cycles \o r.cycles)

detect_roots(rels, keys, k, visited, cycles) ==
    IF k > Len(keys)
    THEN cycles
    ELSE IF keys[k] \in visited
    THEN detect_roots(rels, keys, k + 1, visited, cycles)
    ELSE LET r == dfs(rels, keys[k], <<>>, visited)
         IN detect_roots(rels, keys, k + 1, r.visited, cycles \o r.cycles)

\* The traversal started from the first key only.
detect_first_root_only(rels) ==
    LET keys == SortedSeq(DOMAIN rels)
    IN IF keys = <<>> THEN <<>> ELSE dfs(rels, keys[1], <<>>, {}).cycles

detect_circular_dependencies(rels) ==
    detect_roots(rels, SortedSeq(DOMAIN rels), 1, {}, <<>>)

(***************************************************************************)
(* SpecCycles: _detect_circular_dependencies on any relationship graph.    *)
(***************************************************************************)
NumNodes == 3
MaxEdges == 4
Nodes == 1..NumNodes

\* Every graph over Nodes with at most e edges, as a dict of adjacency lists:
\* a list may hold a node twice and may hold its own key.  Relabelling the
\* nodes maps any key order to the ascending one.
RECURSIVE Graphs(_)
Graphs(e) ==
    IF e = 0
    THEN {[n \in Nodes |-> <<>>]}
    ELSE LET G == Graphs(e - 1)
         IN G \cup {[g EXCEPT ![a] = Append(@, b)] : g \in G, a \in Nodes, b \in Nodes}

IdleCycles == cpc = "idle" /\ graph = <<>> /\ all_cycles = <<>>
IdleDup == dpc = "idle" /\ content1 = NoValue /\ content2 = NoValue /\ dup_blocks = <<>>
IdleCollect == wpc = "idle" /\ walk = <<>> /\ code_files = <<>>
IdleWeb == analysis_contexts = <<>> /\ analysis_cache = <<>> /\ session_cache = <<>>
    /\ background_tasks = <<>> /\ http_response = <<>> /\ uploaded_by = <<>>
IdleLanguage == lpc = "idle" /\ lang_path = <<>> /\ lang_scores = <<>> /\ detected_language = NoValue
IdleScan ==
    /\ pc = "idle" /\ root_kind = "idle" /\ hash_seed = 0 /\ disk = <<>> /\ all_files = <<>> /\ tasks = <<>>
    /\ batch_i = 0 /\ results = <<>> /\ stages_done = <<>>
    /\ file_analyses = <<>> /\ relationships = <<>> /\ duplicates = <<>>
    /\ architecture_issues = <<>> /\ testing_gaps = <<>>
    /\ overall_scores = <<>> /\ returned = <<>>

InitCycles ==
    /\ cpc = "input"
    /\ IdleWeb
    /\ IdleLanguage
    /\ graph \in Graphs(MaxEdges)
    /\ all_cycles = <<>>
    /\ IdleDup
    /\ IdleCollect
    /\ IdleScan

DetectCircular ==
    /\ cpc = "input"
    /\ all_cycles' = detect_circular_dependencies(graph)
    /\ cpc' = "returned"
    /\ UNCHANGED <<graph, dupVars, collectVars, scanVars, webVars, langVars>>

NextCycles == DetectCircular

SpecCycles == InitCycles /\ [][NextCycles]_vars

\* ---- what the claims about cycles speak of
Succ(g, n) == Range(GetList(g, n))

\* The nodes reachable from the set S by zero or more edges.
RECURSIVE Closure(_, _)
Closure(g, S) ==
    LET T == S \cup UNION {Succ(g, n) : n \in S}
    IN IF T = S THEN S ELSE Closure(g, T)

OnCycle(g, n) == n \in Closure(g, Succ(g, n))
HasCycle(g) == \E n \in DOMAIN g : OnCycle(g, n)

IsSimpleCycle(c) ==
    /\ Len(c) >= 2
    /\ c[1] = c[Len(c)]
    /\ \A j, k \in 1..(Len(c) - 1) : j # k => c[j] # c[k]

\* The nodes with an outgoing edge, and the first of them in key order.
Sources(g) == {n \in DOMAIN g : g[n] # <<>>}
FirstSource(g) == CHOOSE n \in Sources(g) : \A m \in Sources(g) : n <= m

\* A graph that is exactly one directed cycle: every node with an edge has
\* exactly one, into the cycle, and the cycle through the first of them
\* takes in them all.
IsRing(g) ==
    /\ Sources(g) # {}
    /\ \A n \in Sources(g) : Len(g[n]) = 1 /\ g[n][1] \in Sources(g)
    /\ OnCycle(g, FirstSource(g))
    /\ Closure(g, {FirstSource(g)}) = Sources(g)

\* The nodes of a ring in the order its edges are followed from n, until the
\* edge back to start.
RECURSIVE RingWalk(_, _, _)
RingWalk(g, n, start) ==
    IF g[n][1] = start THEN <<n>> ELSE <<n>> \o RingWalk(g, g[n][1], start)

\* C1: every cycle _detect_circular_dependencies returns is a simple cycle:
\* it starts and ends with the same file and holds no other file twice.
C1_CyclesAreSimple ==
    cpc = "returned" => \A k \in 1..Len(all_cycles) : IsSimpleCycle(all_cycles[k])

\* C1 witness: a cycle was cut out of a longer path (the first root has edges
\* and is not on the reported cycle of three or more files).
C1_Witness ==
    /\ cpc = "returned"
    /\ graph[1] # <<>>
    /\ \E k \in 1..Len(all_cycles) :
          Len(all_cycles[k]) >= 3 /\ 1 \notin Range(all_cycles[k])

\* C2: on a graph that is exactly one directed cycle the call returns exactly
\* one cycle, the nodes in traversal order from the first traversal root.
C2_RingGivesOneCycle ==
    (cpc = "returned" /\ IsRing(graph)) =>
        all_cycles = << RingWalk(graph, FirstSource(graph), FirstSource(graph))
                        \o <<FirstSource(graph)>> >>

\* C2 witness: the three-node ring A -> B -> C -> A has been analysed.
C2_Witness ==
    /\ cpc = "returned"
    /\ IsRing(graph)
    /\ Cardinality(Sources(graph)) = 3
    /\ Len(all_cycles) = 1

\* C3: the call returns a non-empty list exactly when the graph holds a
\* directed cycle, wherever the cycle lies.
C3_NonEmptyIffCycle ==
    cpc = "returned" => ((all_cycles # <<>>) <=> HasCycle(graph))

\* C3 witness: a cycle the first traversal root cannot reach was reported.
C3_Witness ==
    /\ cpc = "returned"
    /\ all_cycles # <<>>
    /\ \A n \in Closure(graph, {1}) : ~OnCycle(graph, n)
    /\ \E n \in Nodes : Len(graph[n]) >= 1 /\ graph[n][1] # n /\ OnCycle(graph, n)

(***************************************************************************)
(* _find_duplicate_blocks                                                  *)
(*                                                                         *)
(* A line is a sequence of characters; a file content is its lines and     *)
(* whether a newline ends the last of them.                                *)
(***************************************************************************)
min_block_size == 5

\* str.strip() for lines of letters and blanks
RECURSIVE lstrip(_)
lstrip(line) ==
    IF line # <<>> /\ line[1] = " " THEN lstrip(Tail(line)) ELSE line

RECURSIVE rstrip(_)
rstrip(line) ==
    IF line # <<>> /\ line[Len(line)] = " "
    THEN rstrip(SubSeq(line, 1, Len(line) - 1))
    ELSE line

strip(line) == rstrip(lstrip(line))

\* The text of a file's lines: an indented file has every line written
\* between blanks.
text_lines(content) ==
    [k \in 1..Len(content.lines) |->
        IF content.indented THEN <<" ">> \o content.lines[k] \o <<" ">>
        ELSE content.lines[k]]

\* content.split('\n'): a newline at the end leaves an empty last piece, and
\* the empty content splits into one empty piece.
split_lines(content) ==
    IF content.lines = <<>>
    THEN <<  <<>>  >>
    ELSE text_lines(content)
         \o (IF content.newline_at_end THEN <<  <<>>  >> ELSE <<>>)

\* Python's 0-based lines[k]
At(lines, k) == lines[k + 1]

\* The while loop without its test that the line is not empty
RECURSIVE grow_block_counting_blank(_, _, _, _, _)
grow_block_counting_blank(lines1, lines2, i, j, block_size) ==
    IF /\ i + block_size < Len(lines1)
       /\ j + block_size < Len(lines2)
       /\ strip(At(lines1, i + block_size)) = strip(At(lines2, j + block_size))
    THEN grow_block_counting_blank(lines1, lines2, i, j, block_size + 1)
    ELSE block_size

\* The while loop that grows block_size from (i, j).
RECURSIVE grow_block(_, _, _, _, _)
grow_block(lines1, lines2, i, j, block_size) ==
    IF /\ i + block_size < Len(lines1)
       /\ j + block_size < Len(lines2)
       /\ strip(At(lines1, i + block_size)) = strip(At(lines2, j + block_size))
       /\ strip(At(lines1, i + block_size)) # <<>>
    THEN grow_block(lines1, lines2, i, j, block_size + 1)
    ELSE block_size

\* range(n) as the number of values it yields
range_len(n) == IF n > 0 THEN n ELSE 0

\* The body of the two for loops, run for the t-th pair (i, j) of the
\* iteration order on, where j runs over nj values inside every i.  A block
\* holds its line ranges "a-b" as the pair <<a, b>>.
RECURSIVE scan_pairs(_, _, _, _, _, _, _, _)
scan_pairs(lines1, lines2, file1, file2, ni, nj, t, found) ==
    IF t >= ni * nj
    THEN found
    ELSE LET i == t \div nj
             j == t % nj
             block_size == grow_block(lines1, lines2, i, j, 0)
         IN scan_pairs(lines1, lines2, file1, file2, ni, nj, t + 1,
               IF block_size >= min_block_size
               THEN Append(found, [file1 |-> file1,
                                   file2 |-> file2,
                                   lines1 |-> <<i + 1, i + block_size>>,
                                   lines2 |-> <<j + 1, j + block_size>>,
                                   duplicate_lines |-> block_size,
                                   similarity |-> 1])
               ELSE found)

find_duplicate_blocks(c1, c2, file1, file2) ==
    LET lines1 == split_lines(c1)
        lines2 == split_lines(c2)
    IN scan_pairs(lines1, lines2, file1, file2,
                  range_len(Len(lines1) - min_block_size),
                  range_len(Len(lines2) - min_block_size), 0, <<>>)

(***************************************************************************)
(* SpecDup: _find_duplicate_blocks on two file contents.                   *)
(***************************************************************************)
MaxLines == 7

RECURSIVE SeqsUpTo(_, _)
SeqsUpTo(S, n) ==
    IF n = 0
    THEN {<<>>}
    ELSE LET R == SeqsUpTo(S, n - 1)
         IN R \cup {Append(r, x) : r \in R, x \in S}

LineTexts == { <<"a">>, <<"b">> }

\* The first file is written flush left, the second may be indented.
Contents(indents) ==
    {c \in [lines : SeqsUpTo(LineTexts, MaxLines), newline_at_end : BOOLEAN,
            indented : indents] :
        c.lines = <<>> => ~c.newline_at_end}

InitDup ==
    /\ dpc = "input"
    /\ content1 \in Contents({FALSE})
    /\ content2 \in Contents(BOOLEAN)
    /\ dup_blocks = <<>>
    /\ IdleCycles
    /\ IdleWeb
    /\ IdleLanguage
    /\ IdleCollect
    /\ IdleScan

FindDuplicateBlocks ==
    /\ dpc = "input"
    /\ dup_blocks' = find_duplicate_blocks(content1, content2, 1, 2)
    /\ dpc' = "returned"
    /\ UNCHANGED <<content1, content2, cycleVars, collectVars, scanVars, webVars, langVars>>

NextDup == FindDuplicateBlocks

SpecDup == InitDup /\ [][NextDup]_vars

\* ---- what the claims about duplicate blocks speak of
\* The number of consecutive lines from 0-based (i, j) on that are equal
\* after trimming and not blank.
RECURSIVE RunLength(_, _, _, _)
RunLength(l1, l2, i, j) ==
    IF /\ i < Len(l1)
       /\ j < Len(l2)
       /\ strip(l1[i + 1]) = strip(l2[j + 1])
       /\ strip(l1[i + 1]) # <<>>
    THEN 1 + RunLength(l1, l2, i + 1, j + 1)
    ELSE 0

\* The two files start with the same n non-blank lines (n >= 5), both go on
\* with lines that differ, and no other alignment of the two files matches
\* 5 lines.
SharedPrefixOnly(l1, l2, n) ==
    /\ n >= min_block_size
    /\ RunLength(l1, l2, 0, 0) = n
    /\ Len(l1) > n /\ Len(l2) > n
    /\ \A k \in 1..n : l1[k] = l2[k]
    /\ strip(l1[n + 1]) # strip(l2[n + 1])
    /\ \A i \in 0..(Len(l1) - 1), j \in 0..(Len(l2) - 1) :
          i # j => RunLength(l1, l2, i, j) < min_block_size

\* C9: two files that share lines 1..n and differ after them get exactly one
\* block, of n lines from line 1 in both; no block for a part of the run.
C9_OneBlockPerRun ==
    LET l1 == split_lines(content1)
        l2 == split_lines(content2)
        n == RunLength(l1, l2, 0, 0)
    IN (dpc = "returned" /\ SharedPrefixOnly(l1, l2, n)) =>
          dup_blocks = << [file1 |-> 1, file2 |-> 2,
                           lines1 |-> <<1, n>>, lines2 |-> <<1, n>>,
                           duplicate_lines |-> n, similarity |-> 1] >>

\* C10: every pair of start lines from which at least 5 lines match gets a
\* block that covers the run, also at the end of a file and in a file of
\* exactly 5 lines.
C10_EveryRunReported ==
    LET l1 == split_lines(content1)
        l2 == split_lines(content2)
    IN dpc = "returned" =>
          \A i \in 0..(Len(l1) - 1), j \in 0..(Len(l2) - 1) :
             LET n == RunLength(l1, l2, i, j)
             IN n >= min_block_size =>
                   \E k \in 1..Len(dup_blocks) :
                      /\ dup_blocks[k].lines1[1] <= i + 1
                      /\ dup_blocks[k].lines1[2] >= i + n
                      /\ dup_blocks[k].lines2[1] - dup_blocks[k].lines1[1] = j - i
                      /\ dup_blocks[k].lines2[2] >= j + n

\* C11: every reported block has duplicate_lines >= 5, and each of its two
\* line ranges spans exactly duplicate_lines lines, all of them lines of its
\* file.
C11_BlocksAreLongEnoughAndInsideFiles ==
    \A k \in 1..Len(dup_blocks) :
        LET b == dup_blocks[k]
        IN /\ b.duplicate_lines >= min_block_size
           /\ b.lines1[2] - b.lines1[1] + 1 = b.duplicate_lines
           /\ b.lines2[2] - b.lines2[1] + 1 = b.duplicate_lines
           /\ 1 <= b.lines1[1] /\ b.lines1[2] <= Len(content1.lines)
           /\ 1 <= b.lines2[1] /\ b.lines2[2] <= Len(content2.lines)

\* A block was reported that ends on the last line of both files.
C11_Witness ==
    /\ dpc = "returned"
    /\ \E k \in 1..Len(dup_blocks) :
          /\ dup_blocks[k].lines1[2] = Len(content1.lines)
          /\ dup_blocks[k].lines2[2] = Len(content2.lines)

(***************************************************************************)
(* Strings and paths.  A string is a sequence of one-character strings.    *)
(***************************************************************************)
\* Python's `needle in hay` for strings
IsSubstring(needle, hay) ==
    \E k \in 0..(Len(hay) - Len(needle)) :
        SubSeq(hay, k + 1, k + Len(needle)) = needle

StartsWith(s, prefix) ==
    Len(prefix) <= Len(s) /\ SubSeq(s, 1, Len(prefix)) = prefix

\* str.lower() on the characters the model writes
lower_char(c) ==
    CASE c = "A" -> "a"
      [] c = "B" -> "b"
      [] c = "T" -> "t"
      [] OTHER -> c
lower(s) == [k \in 1..Len(s) |-> lower_char(s[k])]

\* str.rfind(c): the last 0-based position holding c, or -1
rfind(s, c) ==
    IF \E k \in 1..Len(s) : s[k] = c
    THEN (CHOOSE k \in 1..Len(s) : s[k] = c /\ \A j \in (k + 1)..Len(s) : s[j] # c) - 1
    ELSE -1

\* Path(p).name: the part after the last "/"
path_name(path) == SubSeq(path, rfind(path, "/") + 2, Len(path))

\* Path(p).suffix: from the last "." of the name on, unless that dot starts
\* or ends the name
path_suffix(path) ==
    LET name == path_name(path)
        i == rfind(name, ".")
    IN IF 0 < i /\ i < Len(name) - 1 THEN SubSeq(name, i + 1, Len(name)) ELSE <<>>

\* Path(p).stem: the name without its suffix
path_stem(path) ==
    LET name == path_name(path)
    IN SubSeq(name, 1, Len(name) - Len(path_suffix(path)))

(***************************************************************************)
(* SUPPORTED_LANGUAGES: the extensions of every language.                  *)
(***************************************************************************)
LanguageOrder ==
    << "python", "javascript", "java", "csharp", "cpp", "go", "rust", "php",
       "ruby", "swift" >>

extensions(lang) ==
    CASE lang = "python" -> { <<".", "p", "y">>, <<".", "p", "y", "x">>, <<".", "p", "y", "i">> }
      [] lang = "javascript" -> { <<".", "j", "s">>, <<".", "j", "s", "x">>, <<".", "t", "s">>,
                                  <<".", "t", "s", "x">>, <<".", "m", "j", "s">> }
      [] lang = "java" -> { <<".", "j", "a", "v", "a">> }
      [] lang = "csharp" -> { <<".", "c", "s">> }
      [] lang = "cpp" -> { <<".", "c", "p", "p">>, <<".", "c", "c">>, <<".", "c", "x", "x">>,
                           <<".", "c">>, <<".", "h">>, <<".", "h", "p", "p">> }
      [] lang = "go" -> { <<".", "g", "o">> }
      [] lang = "rust" -> { <<".", "r", "s">> }
      [] lang = "php" -> { <<".", "p", "h", "p">> }
      [] lang = "ruby" -> { <<".", "r", "b">> }
      [] lang = "swift" -> { <<".", "s", "w", "i", "f", "t">> }

all_extensions == UNION {extensions(LanguageOrder[k]) : k \in 1..Len(LanguageOrder)}

\* The exclude_patterns of _collect_all_code_files
exclude_patterns ==
    { <<".", "g", "i", "t">>,
      <<"_", "_", "p", "y", "c", "a", "c", "h", "e", "_", "_">>,
      <<"n", "o", "d", "e", "_", "m", "o", "d", "u", "l", "e", "s">>,
      <<".", "v", "e", "n", "v">>, <<"v", "e", "n", "v">>,
      <<"b", "u", "i", "l", "d">>, <<"d", "i", "s", "t">>,
      <<".", "g", "r", "a", "d", "l", "e">>, <<"t", "a", "r", "g", "e", "t">>,
      <<"b", "i", "n">>, <<"o", "b", "j">>,
      <<".", "v", "s">>, <<".", "v", "s", "c", "o", "d", "e">>,
      <<".", "i", "d", "e", "a">>,
      <<"*", ".", "m", "i", "n", ".", "j", "s">>,
      <<"*", ".", "b", "u", "n", "d", "l", "e", ".", "j", "s">> }

\* The test of one walked file: a supported extension and no exclude pattern
\* anywhere in the path string.
is_collected(path) ==
    /\ lower(path_suffix(path)) \in all_extensions
    /\ ~\E exclude \in exclude_patterns : IsSubstring(exclude, path)

\* _collect_all_code_files.  The files on disk are held in the order of their
\* path strings, so sorted(code_files) is the collected files in disk order;
\* a collected file is named by its position on disk.
RECURSIVE collect_from(_, _)
collect_from(files, k) ==
    IF k > Len(files) THEN <<>>
    ELSE (IF is_collected(files[k].path) THEN <<k>> ELSE <<>>)
         \o collect_from(files, k + 1)

collect_all_code_files(files) == collect_from(files, 1)

\* The first language, in table order, that lists the extension; 0 if none.
RECURSIVE language_by_extension(_, _)
language_by_extension(file_ext, k) ==
    IF k > Len(LanguageOrder) THEN 0
    ELSE IF file_ext \in extensions(LanguageOrder[k]) THEN k
    ELSE language_by_extension(file_ext, k + 1)

\* max(pattern_scores, key=pattern_scores.get): the first language, in table
\* order, whose score no other exceeds.
max_pattern_score(pattern_scores) ==
    CHOOSE k \in 1..Len(LanguageOrder) :
        /\ \A j \in 1..Len(LanguageOrder) :
              pattern_scores[LanguageOrder[j]] <= pattern_scores[LanguageOrder[k]]
        /\ \A j \in 1..(k - 1) :
              pattern_scores[LanguageOrder[j]] < pattern_scores[LanguageOrder[k]]

\* _detect_file_language.  pattern_scores[lang] is the number of occurrences
\* of lang's patterns in the content.
detect_file_language(path, pattern_scores) ==
    LET by_ext == language_by_extension(lower(path_suffix(path)), 1)
    IN IF by_ext # 0 THEN LanguageOrder[by_ext]
       ELSE LanguageOrder[max_pattern_score(pattern_scores)]

(***************************************************************************)
(* _analyze_single_file                                                    *)
(*                                                                         *)
(* A file on disk is a record                                              *)
(*   path                 the path string the walk yields for it           *)
(*   fault                the step of its analysis that raises: "none",    *)
(*                        "open", "security", "performance" or "quality"   *)
(*   content              its text (lines, newline_at_end, indented)       *)
(*   pattern_scores       occurrences of each language's patterns          *)
(*   security_findings, performance_findings, quality_findings             *)
(*                        the severities of the issues the line detectors  *)
(*                        find in it, in line order                        *)
(*   keyword_count        occurrences of its language's complexity         *)
(*                        keywords followed by a blank                     *)
(*   imports              the tokens of its import statements, in the      *)
(*                        order re.findall yields them                     *)
(***************************************************************************)
non_blank(line) == strip(line) # <<>>

\* len([line for line in content.split('\n') if line.strip()])
lines_of_code(content) == Len(SelectSeq(split_lines(content), non_blank))

RECURSIVE sum_len(_, _)
sum_len(lines, k) ==
    IF k > Len(lines) THEN 0 ELSE Len(lines[k]) + sum_len(lines, k + 1)

\* len(content.encode('utf-8')): the characters of the pieces and the
\* newlines between them
size_bytes(content) ==
    LET pieces == split_lines(content)
    IN sum_len(pieces, 1) + Len(pieces) - 1

\* comment_patterns: what a documentation line starts with after its blanks
comment_patterns(language) ==
    CASE language \in {"python"} -> { <<"#">>, <<"\"", "\"", "\"">>, <<"'", "'", "'">> }
      [] language \in {"javascript", "java", "csharp", "cpp", "php"} ->
            { <<"/", "/">>, <<"/", "*">>, <<"*">> }
      [] language \in {"go"} -> { <<"/", "/">> }
      [] language \in {"rust", "swift"} -> { <<"/", "/">>, <<"/", "*">> }
      [] language \in {"ruby"} -> { <<"#">> }
      [] OTHER -> {}

\* _calculate_documentation_score, as the fraction <<doc_lines, total_lines>>;
\* 0.0 is <<0, 1>>.  A documentation line is never blank, so the quotient
\* never exceeds 1 and min(1.0, .) leaves it as it is.
calculate_documentation_score(content, language) ==
    LET lines == split_lines(content)
        total_lines == Len(SelectSeq(lines, non_blank))
        is_doc(line) ==
            \E pattern \in comment_patterns(language) :
                StartsWith(lstrip(line), pattern)
    IN IF total_lines = 0 THEN <<0, 1>>
       ELSE <<Len(SelectSeq(lines, is_doc)), total_lines>>

\* The languages _extract_dependencies has patterns for
dependency_languages == {"python", "javascript", "java", "csharp", "go", "rust"}

\* The first occurrences of the members of tokens, in order
RECURSIVE first_occurrences(_, _)
first_occurrences(tokens, k) ==
    IF k > Len(tokens) THEN <<>>
    ELSE IF \E j \in 1..(k - 1) : tokens[j] = tokens[k]
         THEN first_occurrences(tokens, k + 1)
         ELSE <<tokens[k]>> \o first_occurrences(tokens, k + 1)

reversed(list) == [k \in 1..Len(list) |-> list[Len(list) + 1 - k]]

\* list(set(dependencies)): the distinct tokens in the order the set iterates
\* them.  A set of strings iterates in the order of the hashes, and these
\* depend on the seed the interpreter drew at its start (PYTHONHASHSEED), so
\* the order is a property of the process and not of the tokens: two of the
\* orders that occur are that of the first occurrences and its reverse.
set_order(tokens, seed) ==
    IF seed = 1 THEN first_occurrences(tokens, 1)
    ELSE reversed(first_occurrences(tokens, 1))

extract_dependencies(file, language, seed) ==
    IF language \in dependency_languages THEN set_order(file.imports, seed) ELSE <<>>

\* _calculate_complexity with complexity starting at 0 instead of 1
calculate_complexity_no_base(file, language) ==
    [cyclomatic_complexity |-> file.keyword_count]

\* _calculate_complexity: 1 plus the keyword occurrences.  The cognitive
\* complexity and the nesting depth it also returns are read by no stage.
calculate_complexity(file, language) ==
    [cyclomatic_complexity |-> 1 + file.keyword_count]

\* _analyze_single_file with a step that fails recording no issue of that
\* category instead of raising.
analyze_single_file_degrading(file, seed) ==
    IF file.fault = "open"
    THEN [kind |-> "Exception", step |-> file.fault]
    ELSE LET language == detect_file_language(file.path, file.pattern_scores)
         IN [kind |-> "FileAnalysis",
             filepath |-> file.path,
             language |-> language,
             size_bytes |-> size_bytes(file.content),
             lines_of_code |-> lines_of_code(file.content),
             security_issues |->
                 IF file.fault = "security" THEN <<>> ELSE file.security_findings,
             performance_issues |->
                 IF file.fault = "performance" THEN <<>> ELSE file.performance_findings,
             quality_issues |->
                 IF file.fault = "quality" THEN <<>> ELSE file.quality_findings,
             complexity_metrics |-> calculate_complexity(file, language),
             dependencies |-> extract_dependencies(file, language, seed),
             documentation_score |->
                 calculate_documentation_score(file.content, language)]

\* _analyze_single_file on a file of the disk: the FileAnalysis, or the
\* exception that the except clause logs and raises again.
analyze_single_file(file, seed) ==
    IF file.fault # "none"
    THEN [kind |-> "Exception", step |-> file.fault]
    ELSE LET language == detect_file_language(file.path, file.pattern_scores)
         IN [kind |-> "FileAnalysis",
             filepath |-> file.path,
             language |-> language,
             size_bytes |-> size_bytes(file.content),
             lines_of_code |-> lines_of_code(file.content),
             security_issues |-> file.security_findings,
             performance_issues |-> file.performance_findings,
             quality_issues |-> file.quality_findings,
             complexity_metrics |-> calculate_complexity(file, language),
             dependencies |-> extract_dependencies(file, language, seed),
             documentation_score |->
                 calculate_documentation_score(file.content, language)]

(***************************************************************************)
(* The stages of scan_codebase that follow the per-file analyses.  A dict  *)
(* keyed by file path is a function on the files' positions on disk; its   *)
(* iteration order is the ascending one, the order its keys were added in. *)
(***************************************************************************)
dict_keys(d) == SortedSeq(DOMAIN d)

RECURSIVE sum_seq(_, _)
sum_seq(numbers, k) ==
    IF k > Len(numbers) THEN 0 ELSE numbers[k] + sum_seq(numbers, k + 1)

\* lists[lo] \o ... \o lists[hi], by halves
RECURSIVE concat_range(_, _, _)
concat_range(lists, lo, hi) ==
    IF lo > hi THEN <<>>
    ELSE IF lo = hi THEN lists[lo]
    ELSE LET mid == (lo + hi) \div 2
         IN concat_range(lists, lo, mid) \o concat_range(lists, mid + 1, hi)

concat_all(lists, k) == concat_range(lists, k, Len(lists))

\* _dependency_matches_file without its calls of lower()
dependency_matches_case_sensitive(dependency, file_path) ==
    LET file_name == path_stem(file_path)
    IN \/ IsSubstring(dependency, file_name)
       \/ IsSubstring(file_name, dependency)

\* _dependency_matches_file
dependency_matches_file(dependency, file_path) ==
    LET file_name == path_stem(file_path)
    IN \/ IsSubstring(lower(dependency), lower(file_name))
       \/ IsSubstring(lower(file_name), lower(dependency))

\* The files one dependency of file_path adds to relationships[file_path]
files_matching(analyses, file_path, dep) ==
    SelectSeq(dict_keys(analyses),
              LAMBDA other_file :
                  /\ other_file # file_path
                  /\ dependency_matches_file(dep, analyses[other_file].filepath))

\* The list relationships[file_path] ends up with
related_files(analyses, file_path) ==
    LET deps == analyses[file_path].dependencies
    IN concat_all([k \in 1..Len(deps) |-> files_matching(analyses, file_path, deps[k])], 1)

\* _analyze_cross_file_relationships: a defaultdict holds a key once a file
\* was appended to its list.
analyze_cross_file_relationships(analyses) ==
    [file_path \in {f \in DOMAIN analyses : related_files(analyses, f) # <<>>} |->
        related_files(analyses, file_path)]

\* _detect_codebase_duplicates: every pair file1 < file2 in iteration order
detect_codebase_duplicates(analyses, files) ==
    LET keys == dict_keys(analyses)
        n == Len(keys)
        pair(t) ==
            LET file1 == keys[((t - 1) \div n) + 1]
                file2 == keys[((t - 1) % n) + 1]
            IN IF file1 >= file2 THEN <<>>
               ELSE find_duplicate_blocks(files[file1].content, files[file2].content,
                                          file1, file2)
    IN concat_all([t \in 1..(n * n) |-> pair(t)], 1)

god_class_threshold == 10

\* _analyze_architecture
analyze_architecture(analyses, rels) ==
    LET circular_deps == detect_circular_dependencies(rels)
        keys == dict_keys(rels)
        god(file_path) ==
            IF Len(rels[file_path]) > god_class_threshold
            THEN << [type |-> "architecture", severity |-> "medium",
                     category |-> "God Class", file |-> file_path,
                     dependency_count |-> Len(rels[file_path])] >>
            ELSE <<>>
    IN [k \in 1..Len(circular_deps) |->
           [type |-> "architecture", severity |-> "high",
            category |-> "Circular Dependency", files |-> circular_deps[k]]]
       \o concat_all([k \in 1..Len(keys) |-> god(keys[k])], 1)

test_indicators ==
    { <<"t", "e", "s", "t">>, <<"s", "p", "e", "c">>,
      <<"_", "_", "t", "e", "s", "t", "_", "_">> }

is_test_path(path) ==
    \E test_indicator \in test_indicators : IsSubstring(test_indicator, lower(path))

\* The test of the ratio with <= in the place of <
coverage_at_most_threshold(test_count, source_count) ==
    source_count # 0 /\ 10 * test_count <= 3 * source_count

\* if source_files: ... if test_ratio < 0.3.  The quotient of two counts is
\* below 0.3 exactly when 10 * tests < 3 * sources.
coverage_is_low(test_count, source_count) ==
    source_count # 0 /\ 10 * test_count < 3 * source_count

\* source_name.lower() in test_file, the test path as it is written
stem_in_test_path_as_written(source_path, test_path) ==
    IsSubstring(lower(path_stem(source_path)), test_path)

\* source_name.lower() in test_file.lower()
stem_in_test_path(source_path, test_path) ==
    IsSubstring(lower(path_stem(source_path)), lower(test_path))

\* _analyze_testing_coverage
analyze_testing_coverage(analyses) ==
    LET keys == dict_keys(analyses)
        test_files == SelectSeq(keys, LAMBDA f : is_test_path(analyses[f].filepath))
        source_files == SelectSeq(keys, LAMBDA f : ~is_test_path(analyses[f].filepath))
        has_test(source_file) ==
            \E k \in 1..Len(test_files) :
                stem_in_test_path(analyses[source_file].filepath,
                                  analyses[test_files[k]].filepath)
        missing(source_file) ==
            IF has_test(source_file) THEN <<>>
            ELSE << [type |-> "testing", severity |-> "medium",
                     category |-> "Missing Tests", file |-> source_file] >>
    IN (IF coverage_is_low(Len(test_files), Len(source_files))
        THEN << [type |-> "testing", severity |-> "high",
                 category |-> "Low Test Coverage",
                 test_files |-> Len(test_files),
                 source_files |-> Len(source_files)] >>
        ELSE <<>>)
       \o concat_all([k \in 1..Len(source_files) |-> missing(source_files[k])], 1)

(***************************************************************************)
(* _calculate_overall_scores.  A score is the fraction <<n, d>> with d > 0 *)
(* until round(score, 1) turns it into a number of tenths.                 *)
(***************************************************************************)
RECURSIVE gcd(_, _)
gcd(a, b) == IF b = 0 THEN a ELSE gcd(b, a % b)

frac(n, d) == LET g == gcd(IF n < 0 THEN -n ELSE n, d) IN <<n \div g, d \div g>>
frac_add(x, y) == frac(x[1] * y[2] + y[1] * x[2], x[2] * y[2])
\* max(1, x) left out
frac_second(x, y) == y

frac_max(x, y) == IF x[1] * y[2] >= y[1] * x[2] THEN x ELSE y

RECURSIVE frac_sum(_, _)
frac_sum(fractions, k) ==
    IF k > Len(fractions) THEN <<0, 1>>
    ELSE frac_add(fractions[k], frac_sum(fractions, k + 1))

\* round(x, 1) in tenths: the values it may give.  Python rounds the binary
\* float that the arithmetic produced; for a score exactly half way between
\* two tenths that float lies on either side (2.85 gives 2.9, 4.75 gives 4.8,
\* 0.25 gives 0.2), so both tenths are possible; any other score is further
\* from the half than a float error and goes to the nearest tenth.
round1(x) ==
    LET t == (10 * x[1]) \div x[2]
        twice_rest == 2 * (10 * x[1] - t * x[2])
    IN IF twice_rest > x[2] THEN {t + 1}
       ELSE IF twice_rest < x[2] THEN {t}
       ELSE {t, t + 1}

\* The mean of the first four scores only
overall_without_complexity(scores) ==
    LET total == frac_sum(SubSeq(scores, 1, 4), 1)
    IN frac(total[1], 4 * total[2])

\* (security_score + ... + complexity_score) / 5
overall_score(scores) ==
    LET total == frac_sum(scores, 1)
    IN frac(total[1], 5 * total[2])

\* The weight of a finding by its severity, in tenths
severity_weight(severity) ==
    CASE severity = "critical" -> 25
      [] severity = "high" -> 15
      [] severity = "medium" -> 5
      [] OTHER -> 2

\* A security score that weighs every finding by its severity and has the
\* floor 0
security_score_weighted(issue_lists, total_files) ==
    LET all_issues == concat_all(issue_lists, 1)
        weight == sum_seq([k \in 1..Len(all_issues) |-> severity_weight(all_issues[k])], 1)
    IN frac_max(<<0, 1>>, frac(100 * total_files - weight, 10 * total_files))

\* security_score: max(1, 10 - (security_issues / total_files * 2)), where
\* security_issues is the sum of the lengths of the files' lists
security_score_of(issue_lists, total_files) ==
    LET security_issues == sum_seq([k \in 1..Len(issue_lists) |-> Len(issue_lists[k])], 1)
    IN frac_max(<<1, 1>>, frac(10 * total_files - 2 * security_issues, total_files))

\* A quality score with the floor 0
quality_score_floor_zero(issue_lists, total_files) ==
    LET quality_issues == sum_seq([k \in 1..Len(issue_lists) |-> Len(issue_lists[k])], 1)
    IN frac_max(<<0, 1>>, frac(10 * total_files - quality_issues, total_files))

\* quality_score: max(1, 10 - (quality_issues / total_files)), returned under
\* the key 'maintainability'
quality_score_of(issue_lists, total_files) ==
    LET quality_issues == sum_seq([k \in 1..Len(issue_lists) |-> Len(issue_lists[k])], 1)
    IN frac_max(<<1, 1>>, frac(10 * total_files - quality_issues, total_files))

\* _calculate_overall_scores below its test for no file: the score maps it
\* may return
scores_of_files(analyses) ==
    LET keys == dict_keys(analyses)
        total_files == Len(keys)
        performance_issues ==
            sum_seq([k \in 1..total_files |-> Len(analyses[keys[k]].performance_issues)], 1)
        security_score ==
            security_score_of([k \in 1..total_files |-> analyses[keys[k]].security_issues],
                              total_files)
        performance_score ==
            frac_max(<<1, 1>>, frac(20 * total_files - 3 * performance_issues, 2 * total_files))
        quality_score ==
            quality_score_of([k \in 1..total_files |-> analyses[keys[k]].quality_issues],
                             total_files)
        doc_sum == frac_sum([k \in 1..total_files |-> analyses[keys[k]].documentation_score], 1)
        doc_score == frac(10 * doc_sum[1], doc_sum[2] * total_files)
        complexity_sum ==
            sum_seq([k \in 1..total_files |->
                        analyses[keys[k]].complexity_metrics.cyclomatic_complexity], 1)
        complexity_score ==
            frac_max(<<1, 1>>, frac(50 * total_files - complexity_sum, 5 * total_files))
        overall ==
            overall_score(<<security_score, performance_score, quality_score, doc_score,
                            complexity_score>>)
    IN {[security |-> s, performance |-> p, maintainability |-> m,
         documentation |-> d, complexity |-> c, overall |-> o] :
           s \in round1(security_score), p \in round1(performance_score),
           m \in round1(quality_score), d \in round1(doc_score),
           c \in round1(complexity_score), o \in round1(overall)}

\* _calculate_overall_scores without its test for no file: the division by
\* total_files raises
calculate_overall_scores_unguarded(analyses) ==
    IF DOMAIN analyses = {}
    THEN {[error |-> "ZeroDivisionError"]}
    ELSE scores_of_files(analyses)

\* _calculate_overall_scores: the score maps it may return
calculate_overall_scores(analyses) ==
    IF DOMAIN analyses = {} THEN {<<>>} ELSE scores_of_files(analyses)

\* _count_languages
\* _count_languages recording only that a language occurs
count_languages_as_flags(analyses) ==
    LET present == {analyses[f].language : f \in DOMAIN analyses}
    IN [language \in present |-> 1]

count_languages(analyses) ==
    LET present == {analyses[f].language : f \in DOMAIN analyses}
    IN [language \in present |->
           Cardinality({f \in DOMAIN analyses : analyses[f].language = language})]

(***************************************************************************)
(* scan_codebase and _analyze_files_parallel as a state machine.           *)
(*                                                                         *)
(* _analyze_single_file awaits nothing that suspends, so a task, once the  *)
(* event loop starts it, runs to its end in one step.  The loop starts the *)
(* tasks in the order they were created.  The coroutine that awaits a      *)
(* gather goes on as soon as the tasks of its batch are done.              *)
(***************************************************************************)
batch_size == 20

\* A task is [state, result]: "pending" from asyncio.create_task on, "done"
\* once its coroutine returned or raised.
new_task == [state |-> "pending", result |-> [kind |-> "Pending"]]

pending_tasks == {k \in 1..Len(tasks) : tasks[k].state = "pending"}

\* tasks[i:i + batch_size]
batch_at(i) == SubSeq(tasks, i + 1, Min(i + batch_size, Len(tasks)))

\* asyncio.gather without return_exceptions: the first exception propagates
gather_first_exception(batch) ==
    IF \E j \in 1..Len(batch) : batch[j].result.kind = "Exception"
    THEN [raised |-> TRUE, values |-> <<>>]
    ELSE [raised |-> FALSE, values |-> [j \in 1..Len(batch) |-> batch[j].result]]

\* asyncio.gather(*batch, return_exceptions=True): an exception is a value
gather(batch) ==
    [raised |-> FALSE, values |-> [j \in 1..Len(batch) |-> batch[j].result]]

\* The loop over enumerate(batch_results) with results[file_paths[j]] = result:
\* the position in the batch taken for the position in file_paths
store_batch_by_position_in_batch(old, file_paths, i, batch_results) ==
    LET stored == {j \in 1..Len(batch_results) : batch_results[j].kind = "FileAnalysis"}
        keys == {file_paths[j] : j \in stored}
    IN [f \in DOMAIN old \cup keys |->
           IF f \in keys
           THEN batch_results[CHOOSE j \in stored : file_paths[j] = f]
           ELSE old[f]]

\* The loop over enumerate(batch_results): results[file_paths[i + j]] = result
\* for every FileAnalysis, a warning for anything else.
store_batch(old, file_paths, i, batch_results) ==
    LET stored == {j \in 1..Len(batch_results) : batch_results[j].kind = "FileAnalysis"}
        keys == {file_paths[i + j] : j \in stored}
    IN [f \in DOMAIN old \cup keys |->
           IF f \in keys
           THEN batch_results[CHOOSE j \in stored : file_paths[i + j] = f]
           ELSE old[f]]

\* range(0, len(tasks), batch_size) has a value left at i
loop_once(i, n) == i = 0 /\ n > 0

loop_continues(i, n) == i < n

scanRest == <<cycleVars, dupVars, collectVars, webVars, langVars, root_kind, hash_seed, disk>>

\* root.rglob('*') filtered by is_file(): the files under a directory, and
\* nothing when the path names a file or nothing at all
rglob_files(kind, files) == IF kind = "directory" THEN files ELSE <<>>

\* line 125
Collect ==
    /\ pc = "start"
    /\ all_files' = collect_all_code_files(rglob_files(root_kind, disk))
    /\ pc' = "create_tasks"
    /\ UNCHANGED <<scanRest, tasks, batch_i, results, stages_done, file_analyses,
                   relationships, duplicates, architecture_issues, testing_gaps,
                   overall_scores, returned>>

\* lines 200-207: one task per file, all created before the first await
CreateTasks ==
    /\ pc = "create_tasks"
    /\ tasks' = [k \in 1..Len(all_files) |-> new_task]
    /\ batch_i' = 0
    /\ results' = <<>>
    /\ pc' = "batches"
    /\ UNCHANGED <<scanRest, all_files, stages_done, file_analyses, relationships,
                   duplicates, architecture_issues, testing_gaps, overall_scores,
                   returned>>

\* The event loop runs the oldest pending task while scan_codebase is
\* suspended in a gather.
RunTask ==
    /\ pc = "batches"
    /\ pending_tasks # {}
    /\ LET k == CHOOSE t \in pending_tasks : \A u \in pending_tasks : t <= u
       IN tasks' = [tasks EXCEPT ![k] =
                       [state |-> "done",
                        result |-> analyze_single_file(disk[all_files[k]], hash_seed)]]
    /\ UNCHANGED <<scanRest, pc, all_files, batch_i, results, stages_done,
                   file_analyses, relationships, duplicates, architecture_issues,
                   testing_gaps, overall_scores, returned>>

\* lines 209-217: one turn of the batch loop
GatherBatch ==
    /\ pc = "batches"
    /\ loop_continues(batch_i, Len(tasks))
    /\ LET batch == batch_at(batch_i)
           batch_results == gather(batch)
       IN /\ \A j \in 1..Len(batch) : batch[j].state = "done"
          /\ IF batch_results.raised
             THEN /\ pc' = "failed"
                  /\ UNCHANGED <<results, batch_i>>
             ELSE /\ results' = store_batch(results, all_files, batch_i,
                                            batch_results.values)
                  /\ batch_i' = batch_i + batch_size
                  /\ pc' = pc
    /\ UNCHANGED <<scanRest, all_files, tasks, stages_done, file_analyses,
                   relationships, duplicates, architecture_issues, testing_gaps,
                   overall_scores, returned>>

\* line 219 and the assignment of line 129
ReturnResults ==
    /\ pc = "batches"
    /\ ~loop_continues(batch_i, Len(tasks))
    /\ file_analyses' = results
    /\ stages_done' = Append(stages_done, "analyses")
    /\ pc' = "relationships"
    /\ UNCHANGED <<scanRest, all_files, tasks, batch_i, results, relationships,
                   duplicates, architecture_issues, testing_gaps, overall_scores,
                   returned>>

\* line 132
AnalyzeRelationships ==
    /\ pc = "relationships"
    /\ relationships' = analyze_cross_file_relationships(file_analyses)
    /\ stages_done' = Append(stages_done, "relationships")
    /\ pc' = "duplicates"
    /\ UNCHANGED <<scanRest, all_files, tasks, batch_i, results, file_analyses,
                   duplicates, architecture_issues, testing_gaps, overall_scores,
                   returned>>

\* line 135
DetectDuplicates ==
    /\ pc = "duplicates"
    /\ duplicates' = detect_codebase_duplicates(file_analyses, disk)
    /\ stages_done' = Append(stages_done, "duplicates")
    /\ pc' = "architecture"
    /\ UNCHANGED <<scanRest, all_files, tasks, batch_i, results, file_analyses,
                   relationships, architecture_issues, testing_gaps, overall_scores,
                   returned>>

\* line 138
AnalyzeArchitecture ==
    /\ pc = "architecture"
    /\ architecture_issues' = analyze_architecture(file_analyses, relationships)
    /\ stages_done' = Append(stages_done, "architecture")
    /\ pc' = "testing"
    /\ UNCHANGED <<scanRest, all_files, tasks, batch_i, results, file_analyses,
                   relationships, duplicates, testing_gaps, overall_scores, returned>>

\* line 139
AnalyzeTesting ==
    /\ pc = "testing"
    /\ testing_gaps' = analyze_testing_coverage(file_analyses)
    /\ stages_done' = Append(stages_done, "testing")
    /\ pc' = "scores"
    /\ UNCHANGED <<scanRest, all_files, tasks, batch_i, results, file_analyses,
                   relationships, duplicates, architecture_issues, overall_scores,
                   returned>>

\* line 142
CalculateScores ==
    /\ pc = "scores"
    /\ overall_scores' \in calculate_overall_scores(file_analyses)
    /\ stages_done' = Append(stages_done, "scores")
    /\ pc' = "return"
    /\ UNCHANGED <<scanRest, all_files, tasks, batch_i, results, file_analyses,
                   relationships, duplicates, architecture_issues, testing_gaps,
                   returned>>

\* lines 144-153
Return ==
    /\ pc = "return"
    /\ returned' = [total_files |-> Len(all_files),
                    languages_detected |-> count_languages(file_analyses),
                    file_analyses |-> file_analyses,
                    cross_file_relationships |-> relationships,
                    duplicate_blocks |-> duplicates,
                    architecture_issues |-> architecture_issues,
                    testing_gaps |-> testing_gaps,
                    overall_scores |-> overall_scores]
    /\ pc' = "done"
    /\ UNCHANGED <<scanRest, all_files, tasks, batch_i, results, stages_done,
                   file_analyses, relationships, duplicates, architecture_issues,
                   testing_gaps, overall_scores>>

NextScan ==
    \/ Collect
    \/ CreateTasks
    \/ RunTask
    \/ GatherBatch
    \/ ReturnResults
    \/ AnalyzeRelationships
    \/ DetectDuplicates
    \/ AnalyzeArchitecture
    \/ AnalyzeTesting
    \/ CalculateScores
    \/ Return

(***************************************************************************)
(* SpecScan: scan_codebase on a root "r" that holds up to MaxFiles python  *)
(* files, at most one of which has an analysis step that raises, and       *)
(* possibly a file that is no code file; or on a path that names a single  *)
(* file, or nothing.                                                       *)
(***************************************************************************)
MaxFiles == 21

Letters == <<"a", "b", "c", "d", "e">>

\* The k-th file name in sorted order: aa, ab, ..., ae, ba, ...
FileName(k) == <<Letters[((k - 1) \div 5) + 1], Letters[((k - 1) % 5) + 1]>>

PathOf(stem, suffix) == <<"r", "/">> \o stem \o suffix

EmptyContent == [lines |-> <<>>, newline_at_end |-> FALSE, indented |-> FALSE]

NoPatterns == [lang \in Range(LanguageOrder) |-> 0]

\* A python file with one security and one performance finding
CodeFile(stem, fault, imports) ==
    [path |-> PathOf(stem, <<".", "p", "y">>),
     fault |-> fault,
     content |-> EmptyContent,
     pattern_scores |-> NoPatterns,
     security_findings |-> <<"high">>,
     performance_findings |-> <<"medium">>,
     quality_findings |-> <<>>,
     keyword_count |-> 0,
     imports |-> imports]

\* r/a.md sorts before every r/xy.py and is not collected
NotesFile ==
    [path |-> PathOf(<<"a">>, <<".", "m", "d">>),
     fault |-> "none",
     content |-> EmptyContent,
     pattern_scores |-> NoPatterns,
     security_findings |-> <<>>,
     performance_findings |-> <<>>,
     quality_findings |-> <<>>,
     keyword_count |-> 0,
     imports |-> <<>>]

Faults == {"open", "security", "performance", "quality"}

\* What the path argument may name.  A path that names a file has that file
\* alone on the disk, a path that names nothing has no file.
RootKinds == {"directory", "file", "missing"}

HashSeeds == {1, 2}

ScanStart ==
    /\ hash_seed \in HashSeeds
    /\ pc = "start" /\ all_files = <<>> /\ tasks = <<>>
    /\ batch_i = 0 /\ results = <<>> /\ stages_done = <<>>
    /\ file_analyses = <<>> /\ relationships = <<>> /\ duplicates = <<>>
    /\ architecture_issues = <<>> /\ testing_gaps = <<>>
    /\ overall_scores = <<>> /\ returned = <<>>

InitScan ==
    /\ IdleCycles
    /\ IdleWeb
    /\ IdleLanguage
    /\ IdleDup
    /\ IdleCollect
    /\ ScanStart
    /\ root_kind \in RootKinds
    /\ \E n \in 0..MaxFiles, bad \in 0..MaxFiles, fault \in Faults, notes \in BOOLEAN :
          /\ bad <= n
          /\ bad = 0 => fault = "open"
          /\ root_kind = "file" => n = 1 /\ bad = 0 /\ ~notes
          /\ root_kind = "missing" => n = 0 /\ ~notes
          /\ disk = (IF notes THEN <<NotesFile>> ELSE <<>>)
                    \o [k \in 1..n |->
                           CodeFile(FileName(k), IF k = bad THEN fault ELSE "none", <<>>)]

SpecScan == InitScan /\ [][NextScan]_vars

(***************************************************************************)
(* SpecFanOut: scan_codebase on a root that holds c.py, any of a.py, ab.py *)
(* and b.py, where c.py imports any of six modules and a.py may import c.  *)
(***************************************************************************)
ImportTokens ==
    << <<"a">>, <<"b">>, <<"a", "a">>, <<"a", "b">>, <<"b", "a">>, <<"b", "b">> >>

OtherStems == << <<"a">>, <<"a", "b">>, <<"b">> >>

\* The members of seq whose position is in S, in order
Pick(seq, S) == SelectSeq([k \in 1..Len(seq) |-> IF k \in S THEN <<seq[k]>> ELSE <<>>],
                          LAMBDA x : x # <<>>)

Unwrap(seq) == [k \in 1..Len(seq) |-> seq[k][1]]

InitFanOut ==
    /\ IdleCycles
    /\ IdleWeb
    /\ IdleLanguage
    /\ IdleDup
    /\ IdleCollect
    /\ ScanStart
    /\ root_kind = "directory"
    /\ \E present \in SUBSET (1..Len(OtherStems)),
          imported \in SUBSET (1..Len(ImportTokens)),
          back \in BOOLEAN :
          LET stems == Unwrap(Pick(OtherStems, present))
              others == [k \in 1..Len(stems) |->
                            CodeFile(stems[k], "none",
                                     IF back /\ stems[k] = <<"a">>
                                     THEN << <<"c">> >> ELSE <<>>)]
          IN disk = others \o
                    << CodeFile(<<"c">>, "none", Unwrap(Pick(ImportTokens, imported))) >>

SpecFanOut == InitFanOut /\ [][NextScan]_vars

(***************************************************************************)
(* What the claims about scan_codebase speak of.                           *)
(***************************************************************************)
AfterAnalyses ==
    pc \in {"relationships", "duplicates", "architecture", "testing", "scores",
            "return", "done"}

AfterArchitecture == pc \in {"testing", "scores", "return", "done"}

ReportedGodClass(f) ==
    \E k \in 1..Len(architecture_issues) :
        /\ architecture_issues[k].category = "God Class"
        /\ architecture_issues[k].file = f

\* The number of distinct files f depends on in the relationship graph
FanOut(f) == Cardinality(Range(GetList(relationships, f)))

FaultyFiles(steps) ==
    {k \in 1..Len(all_files) : disk[all_files[k]].fault \in steps}

\* C4: once _analyze_architecture has run, a file is reported as a God Class
\* exactly when the number of distinct files it depends on in the
\* relationship graph exceeds 10.
C4_GodClassIffFanOutAboveThreshold ==
    AfterArchitecture =>
        \A f \in DOMAIN file_analyses :
            ReportedGodClass(f) <=> FanOut(f) > god_class_threshold

C6_OneFailureLosesNoOtherFile ==
    /\ pc # "failed"
    /\ pc = "batches" /\ loop_continues(batch_i, Len(tasks)) =>
          \/ pending_tasks # {}
          \/ \A j \in 1..Len(batch_at(batch_i)) : batch_at(batch_i)[j].state = "done"
    /\ AfterAnalyses =>
          \A k \in FaultyFiles({"none"}) :
              /\ all_files[k] \in DOMAIN file_analyses
              /\ file_analyses[all_files[k]] = tasks[k].result
    /\ pc = "done" =>
          /\ returned.file_analyses = file_analyses
          /\ returned.total_files = Len(all_files)

\* A scan of more files than one batch has returned although one analysis
\* raised, with the analyses of the other files in it.
C6_Witness ==
    /\ pc = "done"
    /\ Len(all_files) > batch_size
    /\ FaultyFiles(Faults) # {}
    /\ Cardinality(DOMAIN returned.file_analyses) = Len(all_files) - 1

C8_StagesAfterAllAnalyses ==
    /\ AfterAnalyses =>
          /\ pending_tasks = {}
          /\ \A k \in 1..Len(tasks) :
                tasks[k].result.kind = "FileAnalysis" =>
                    all_files[k] \in DOMAIN file_analyses
    /\ InList("relationships", stages_done) => InList("analyses", stages_done)
    /\ InList("duplicates", stages_done) => InList("analyses", stages_done)
    /\ InList("architecture", stages_done) => InList("relationships", stages_done)
    /\ InList("testing", stages_done) => InList("analyses", stages_done)
    /\ pc \in {"return", "done"} =>
          stages_done = <<"analyses", "relationships", "duplicates", "architecture",
                          "testing", "scores">>

\* The stages have run on a scan whose files fill more than one batch.
C8_Witness ==
    /\ pc = "return"
    /\ Len(tasks) > batch_size
    /\ InList("scores", stages_done)

\* C15: for a path that names no directory the scan fails; it returns no
\* CodebaseAnalysis.
C15_NoAnalysisUnlessRootIsDirectory ==
    pc = "done" => root_kind = "directory"

\* C16: when no code file is found the scan does not fail, and what it
\* returns has total_files = 0, no file analysis, no relationship, duplicate,
\* architecture issue or testing gap, and an empty score map.
C16_NoFilesGiveEmptyAnalysis ==
    /\ all_files = <<>> => pc # "failed"
    /\ pc = "return" /\ all_files = <<>> => DOMAIN overall_scores = {}
    /\ pc = "done" /\ all_files = <<>> =>
          /\ returned.total_files = 0
          /\ DOMAIN returned.file_analyses = {}
          /\ DOMAIN returned.cross_file_relationships = {}
          /\ returned.duplicate_blocks = <<>>
          /\ returned.architecture_issues = <<>>
          /\ returned.testing_gaps = <<>>
          /\ DOMAIN returned.overall_scores = {}
          /\ DOMAIN returned.languages_detected = {}

\* The scan of a directory that holds one file, which is no code file, has
\* returned.
C16_Witness ==
    /\ pc = "done"
    /\ root_kind = "directory"
    /\ Len(disk) = 1
    /\ returned.total_files = 0

(***************************************************************************)
(* SpecRelations: scan_codebase on a root that holds any of Ab.py, B.py,   *)
(* a.py and c.py, each importing nothing, one module or two.               *)
(***************************************************************************)
\* In the order of their path strings: capitals sort before small letters
RelationStems == << <<"A", "b">>, <<"B">>, <<"a">>, <<"c">> >>

ImportLists ==
    { <<>>,
      << <<"A">> >>, << <<"b">> >>, << <<"a", "B", "c">> >>, << <<"c", "c">> >>,
      << <<"d">> >>,
      << <<"A">>, <<"c", "c">> >>, << <<"d">>, <<"b">> >> }

InitRelations ==
    /\ IdleCycles
    /\ IdleWeb
    /\ IdleLanguage
    /\ IdleDup
    /\ IdleCollect
    /\ ScanStart
    /\ root_kind = "directory"
    /\ \E present \in SUBSET (1..Len(RelationStems)),
          imports \in [1..Len(RelationStems) -> ImportLists] :
          /\ \A k \in 1..Len(RelationStems) : k \notin present => imports[k] = <<>>
          /\ disk = Unwrap(Pick([k \in 1..Len(RelationStems) |->
                                    CodeFile(RelationStems[k], "none", imports[k])],
                                present))

SpecRelations == InitRelations /\ [][NextScan]_vars

AfterRelationships ==
    pc \in {"duplicates", "architecture", "testing", "scores", "return", "done"}

\* Some dependency token of file f matches the stem of file g, in either
\* direction and whatever the case
TokenMatchesStem(f, g) ==
    \E k \in 1..Len(file_analyses[f].dependencies) :
        LET token == lower(file_analyses[f].dependencies[k])
            stem == lower(path_stem(disk[g].path))
        IN IsSubstring(token, stem) \/ IsSubstring(stem, token)

\* C12: once _analyze_cross_file_relationships has run, the graph has the
\* edge f -> g exactly when g is another file than f and a dependency token
\* of f matches the path stem of g by case-insensitive containment in either
\* direction; no file has an edge to itself.
C12_EdgeIffTokenMatchesOtherFile ==
    AfterRelationships =>
        /\ DOMAIN relationships \subseteq DOMAIN file_analyses
        /\ \A f \in DOMAIN file_analyses :
              /\ f \notin Range(GetList(relationships, f))
              /\ \A g \in DOMAIN file_analyses :
                    g \in Range(GetList(relationships, f)) <=>
                        (g # f /\ TokenMatchesStem(f, g))

\* A file whose token matches its own stem and, only when case is ignored,
\* the stem of another file has the edge to the other file.
C12_Witness ==
    /\ AfterRelationships
    /\ \E f \in DOMAIN relationships, g \in DOMAIN file_analyses :
          /\ TokenMatchesStem(f, f)
          /\ g \in Range(relationships[f])
          /\ \A k \in 1..Len(file_analyses[f].dependencies) :
                ~dependency_matches_case_sensitive(file_analyses[f].dependencies[k],
                                                   disk[g].path)

(***************************************************************************)
(* _collect_all_code_files on path strings, with sorted() computed.        *)
(***************************************************************************)
\* The characters of the model's paths in the order of their code points
CharOrder ==
    << "*", ".", "/", "A", "B", "T", "_", "a", "b", "c", "d", "e", "f", "g", "h", "i", "j", "k", "l", "m", "n", "o", "p", "q", "r", "s", "t", "u", "v", "w", "x", "y", "z" >>

char_code(c) == IndexOf(CharOrder, c)

\* a < b on Python strings
RECURSIVE str_less(_, _)
str_less(a, b) ==
    IF b = <<>> THEN FALSE
    ELSE IF a = <<>> THEN TRUE
    ELSE IF a[1] = b[1] THEN str_less(Tail(a), Tail(b))
    ELSE char_code(a[1]) < char_code(b[1])

\* One string put into an ascending list, after the strings not above it
RECURSIVE insert_sorted(_, _)
insert_sorted(sorted, x) ==
    IF sorted = <<>> THEN <<x>>
    ELSE IF str_less(x, sorted[1]) THEN <<x>> \o sorted
    ELSE <<sorted[1]>> \o insert_sorted(Tail(sorted), x)

\* code_files returned as appended
unsorted(paths) == paths

\* sorted(code_files)
RECURSIVE sorted_paths(_)
sorted_paths(paths) ==
    IF paths = <<>> THEN <<>>
    ELSE insert_sorted(sorted_paths(SubSeq(paths, 1, Len(paths) - 1)), paths[Len(paths)])

\* _collect_all_code_files on the paths of the files rglob yields
collect_code_files(file_paths) == sorted_paths(SelectSeq(file_paths, is_collected))

(***************************************************************************)
(* SpecCollect: _collect_all_code_files on a root "r" or "rbin" whose walk *)
(* yields up to MaxWalk of eight files, in any order.                      *)
(***************************************************************************)
MaxWalk == 4

Roots == { <<"r">>, <<"r", "b", "i", "n">> }

RelativePaths ==
    << <<"a", ".", "p", "y">>,
       <<"r", "o", "b", "i", "n", ".", "p", "y">>,
       <<"b", "i", "n", "/", "a", ".", "p", "y">>,
       <<"s", "r", "c", "/", "b", ".", "j", "s">>,
       <<"s", "r", "c", "/", "c", ".", "m", "d">>,
       <<"B", ".", "p", "y">>,
       <<".", "g", "i", "t", "/", "d", ".", "p", "y">>,
       <<"s", "r", "c", "/", "b", "i", "n", "/", "e", ".", "p", "y">> >>

Walks(root) ==
    {[k \in 1..Len(w) |-> root \o <<"/">> \o RelativePaths[w[k]]] :
        w \in {v \in SeqsUpTo(1..Len(RelativePaths), MaxWalk) :
                  \A i, j \in 1..Len(v) : i # j => v[i] # v[j]}}

InitCollect ==
    /\ IdleCycles
    /\ IdleWeb
    /\ IdleLanguage
    /\ IdleDup
    /\ IdleScan
    /\ wpc = "input"
    /\ \E root \in Roots : walk \in Walks(root)
    /\ code_files = <<>>

CollectAllCodeFiles ==
    /\ wpc = "input"
    /\ code_files' = collect_code_files(walk)
    /\ wpc' = "returned"
    /\ UNCHANGED <<walk, cycleVars, dupVars, scanVars, webVars, langVars>>

NextCollect == CollectAllCodeFiles

SpecCollect == InitCollect /\ [][NextCollect]_vars

\* ---- what the claims about file collection speak of
\* The segments of a path: the pieces between its "/"
RECURSIVE Segments(_)
Segments(path) ==
    IF ~InList("/", path) THEN <<path>>
    ELSE LET cut == IndexOf(path, "/")
         IN <<SubSeq(path, 1, cut - 1)>> \o Segments(SubSeq(path, cut + 1, Len(path)))

\* The directories a file lies under, the root first
DirSegments(path) == SubSeq(Segments(path), 1, Len(Segments(path)) - 1)

\* The segments of a path below the root
SegmentsBelowRoot(path) == Tail(Segments(path))

\* C13: the returned list holds no path under a directory whose name is an
\* entry of the exclusion set, it is in ascending order of the path strings,
\* and it holds no path twice.
C13_NoExcludedDirectorySortedNoDuplicate ==
    wpc = "returned" =>
        /\ \A k \in 1..Len(code_files) :
              /\ InList(code_files[k], walk)
              /\ Range(DirSegments(code_files[k])) \cap exclude_patterns = {}
        /\ \A k \in 1..(Len(code_files) - 1) : str_less(code_files[k], code_files[k + 1])
        /\ \A i, j \in 1..Len(code_files) : i # j => code_files[i] # code_files[j]

\* The walk yielded a file under an excluded directory and the code files in
\* another order than the sorted one, and two or more files were returned.
C13_Witness ==
    /\ wpc = "returned"
    /\ Len(code_files) >= 2
    /\ code_files # SelectSeq(walk, is_collected)
    /\ \E k \in 1..Len(walk) : Range(DirSegments(walk[k])) \cap exclude_patterns # {}

\* C14: a file of the walk is returned if and only if its extension is
\* supported and no segment of its path below the root equals an entry of the
\* exclusion set.
C14_IncludedIffNoSegmentIsExcluded ==
    wpc = "returned" =>
        \A k \in 1..Len(walk) :
            InList(walk[k], code_files) <=>
                /\ lower(path_suffix(walk[k])) \in all_extensions
                /\ Range(SegmentsBelowRoot(walk[k])) \cap exclude_patterns = {}

(***************************************************************************)
(* SpecTesting: scan_codebase on a root that holds up to MaxSources source *)
(* files aa.py, ab.py, ... and any of five test files.                     *)
(***************************************************************************)
MaxSources == 10

\* In the order of their path strings, Test_AB.py before every source file
\* and the others after
TestStemsBefore == << <<"T", "e", "s", "t", "_", "A", "B">> >>
TestStemsAfter ==
    << <<"s", "p", "e", "c", "_", "a", "d">>,
       <<"t", "e", "s", "t", "_", "a", "a">>,
       <<"t", "e", "s", "t", "_", "a", "c">>,
       <<"t", "e", "s", "t", "s">> >>

PlainFiles(stems) == [k \in 1..Len(stems) |-> CodeFile(stems[k], "none", <<>>)]

InitTesting ==
    /\ IdleCycles
    /\ IdleWeb
    /\ IdleLanguage
    /\ IdleDup
    /\ IdleCollect
    /\ ScanStart
    /\ root_kind = "directory"
    /\ \E n \in 0..MaxSources,
          before \in SUBSET (1..Len(TestStemsBefore)),
          after \in SUBSET (1..Len(TestStemsAfter)) :
          disk = PlainFiles(Unwrap(Pick(TestStemsBefore, before)))
                 \o PlainFiles([k \in 1..n |-> FileName(k)])
                 \o PlainFiles(Unwrap(Pick(TestStemsAfter, after)))

SpecTesting == InitTesting /\ [][NextScan]_vars

AfterTesting == pc \in {"scores", "return", "done"}

TestFiles == {f \in DOMAIN file_analyses : is_test_path(disk[f].path)}
SourceFiles == DOMAIN file_analyses \ TestFiles

\* The source files whose stem, in small letters, is in no test file's path
\* in small letters
UntestedSources ==
    {f \in SourceFiles :
        \A t \in TestFiles : ~IsSubstring(lower(path_stem(disk[f].path)), lower(disk[t].path))}

GapsOf(category) == {k \in 1..Len(testing_gaps) : testing_gaps[k].category = category}

RatioIsLow ==
    /\ Cardinality(SourceFiles) > 0
    /\ 10 * Cardinality(TestFiles) < 3 * Cardinality(SourceFiles)

LowCoverageGapOfSeverity(severity) ==
    IF RatioIsLow
    THEN /\ Cardinality(GapsOf("Low Test Coverage")) = 1
         /\ \A k \in GapsOf("Low Test Coverage") :
               /\ testing_gaps[k].severity = severity
               /\ testing_gaps[k].test_files = Cardinality(TestFiles)
               /\ testing_gaps[k].source_files = Cardinality(SourceFiles)
    ELSE GapsOf("Low Test Coverage") = {}

\* C17 as stated: exactly one low-coverage gap, of severity medium and with
\* the two counts, exactly when there is a source file and tests / sources is
\* below 0.3.
C17_LowCoverageGapIsMedium ==
    AfterTesting => LowCoverageGapOfSeverity("medium")

\* C17 amended: exactly one low-coverage gap, of severity high and with the
\* two counts, exactly when there is a source file and tests / sources is
\* below 0.3; none when there is no source file.
C17_LowCoverageGapIsHigh ==
    AfterTesting => LowCoverageGapOfSeverity("high")

\* The testing stage has run on 10 source files and 2 test files and has
\* emitted the low-coverage gap.
C17_Witness ==
    /\ AfterTesting
    /\ Cardinality(SourceFiles) = 10
    /\ Cardinality(TestFiles) = 2
    /\ GapsOf("Low Test Coverage") # {}

\* C18: one missing-test gap of severity medium for each source file whose
\* stem is in no test file's path, none for any other file, and so as many
\* gaps in all as untested source files, plus one if the ratio is low.
C18_OneMissingTestGapPerUntestedSource ==
    AfterTesting =>
        /\ \A f \in DOMAIN file_analyses :
              Cardinality({k \in GapsOf("Missing Tests") : testing_gaps[k].file = f})
                  = IF f \in UntestedSources THEN 1 ELSE 0
        /\ \A k \in GapsOf("Missing Tests") : testing_gaps[k].severity = "medium"
        /\ Len(testing_gaps) =
              Cardinality(UntestedSources) + (IF RatioIsLow THEN 1 ELSE 0)

\* 10 untested source files and 1 test file have given 11 gaps.
C18_Witness ==
    /\ AfterTesting
    /\ Cardinality(UntestedSources) = 10
    /\ Cardinality(TestFiles) = 1
    /\ Len(testing_gaps) = 11

(***************************************************************************)
(* SpecScores: scan_codebase on a root that holds up to MaxScoreFiles      *)
(* python files, each with none or many findings of every category, few or *)
(* many complexity keywords, and no, some or only comment lines.           *)
(***************************************************************************)
MaxScoreFiles == 2

SecurityChoices == <<0, 6>>
PerformanceChoices == <<0, 7>>
QualityChoices == <<0, 11>>
KeywordChoices == <<0, 50>>
ContentChoices ==
    << EmptyContent,
       [lines |-> << <<"#", "a">>, <<"a">>, <<"b">> >>, newline_at_end |-> TRUE,
        indented |-> FALSE],
       [lines |-> << <<"#", "a">> >>, newline_at_end |-> TRUE, indented |-> TRUE] >>

NumProfiles ==
    Len(SecurityChoices) * Len(PerformanceChoices) * Len(QualityChoices)
        * Len(KeywordChoices) * Len(ContentChoices)

Findings(count, severity) == [k \in 1..count |-> severity]

\* The file of name stem whose findings, keywords and content are the i-th
\* combination of the choices, i counted from 0
ProfiledFile(stem, i) ==
    [path |-> PathOf(stem, <<".", "p", "y">>),
     fault |-> "none",
     content |-> ContentChoices[(i \div 16) + 1],
     pattern_scores |-> NoPatterns,
     security_findings |-> Findings(SecurityChoices[(i % 2) + 1], "high"),
     performance_findings |-> Findings(PerformanceChoices[((i \div 2) % 2) + 1], "medium"),
     quality_findings |-> Findings(QualityChoices[((i \div 4) % 2) + 1], "low"),
     keyword_count |-> KeywordChoices[((i \div 8) % 2) + 1],
     imports |-> <<>>]

\* The scores do not depend on the order of the files, so the combinations
\* are taken in ascending order.
InitScores ==
    /\ IdleCycles
    /\ IdleWeb
    /\ IdleLanguage
    /\ IdleDup
    /\ IdleCollect
    /\ ScanStart
    /\ root_kind = "directory"
    /\ \E n \in 1..MaxScoreFiles :
          \E profile \in [1..n -> 0..(NumProfiles - 1)] :
              /\ \A k \in 1..(n - 1) : profile[k] <= profile[k + 1]
              /\ disk = [k \in 1..n |-> ProfiledFile(FileName(k), profile[k])]

SpecScores == InitScores /\ [][NextScan]_vars

AfterScores == pc \in {"return", "done"}

ScoreNames ==
    {"security", "performance", "maintainability", "documentation", "complexity",
     "overall"}

\* C19: for a set of file analyses that is not empty, the score map has the
\* six scores and each of them lies in [0, 10], that is between 0 and 100
\* tenths.
C19_ScoresBetween0And10 ==
    AfterScores /\ DOMAIN file_analyses # {} =>
        /\ DOMAIN overall_scores = ScoreNames
        /\ \A name \in ScoreNames :
              0 <= overall_scores[name] /\ overall_scores[name] <= 100

\* The scores of files without a finding, all of comment lines and with many
\* keywords: security is 10.0 and complexity is at its floor of 1.0.
C19_Witness ==
    /\ AfterScores
    /\ DOMAIN file_analyses # {}
    /\ overall_scores.security = 100
    /\ overall_scores.documentation = 100
    /\ overall_scores.complexity = 10

\* Five times the overall score less the sum of the five scores, in tenths
OverallError ==
    5 * overall_scores.overall
        - (overall_scores.security + overall_scores.performance
           + overall_scores.maintainability + overall_scores.documentation
           + overall_scores.complexity)

\* C20: 'overall' is the mean of the five scores security, performance,
\* maintainability, documentation and complexity of the map, to one decimal:
\* it is no more than 0.1 away from the mean of the five rounded scores.
C20_OverallIsMeanOfFiveScores ==
    AfterScores /\ DOMAIN file_analyses # {} =>
        /\ -5 <= OverallError
        /\ OverallError <= 5

\* The five scores of the map are not all the same and their mean is no
\* whole number of tenths.
C20_Witness ==
    /\ AfterScores
    /\ DOMAIN file_analyses # {}
    /\ overall_scores.security # overall_scores.complexity
    /\ OverallError # 0

(***************************************************************************)
(* SpecSeverities: the scan of a directory whose files differ in the       *)
(* number and in the severity of their security findings.                 *)
(***************************************************************************)
MaxSeverityFiles == 2

Severities == <<"critical", "high", "medium", "low">>
SeverityCounts == <<0, 1, 2, 7>>

\* The file of name stem with SeverityCounts[..] security findings of one
\* severity, the i-th combination counted from 0
SeverityFile(stem, i) ==
    [path |-> PathOf(stem, <<".", "p", "y">>),
     fault |-> "none",
     content |-> EmptyContent,
     pattern_scores |-> NoPatterns,
     security_findings |->
         Findings(SeverityCounts[(i % Len(SeverityCounts)) + 1],
                  Severities[(i \div Len(SeverityCounts)) + 1]),
     performance_findings |-> <<>>,
     quality_findings |-> <<>>,
     keyword_count |-> 0,
     imports |-> <<>>]

InitSeverities ==
    /\ IdleCycles
    /\ IdleWeb
    /\ IdleLanguage
    /\ IdleDup
    /\ IdleCollect
    /\ ScanStart
    /\ root_kind = "directory"
    /\ \E n \in 1..MaxSeverityFiles :
          \E profile \in [1..n -> 0..(Len(SeverityCounts) * Len(Severities) - 1)] :
              /\ \A k \in 1..(n - 1) : profile[k] <= profile[k + 1]
              /\ disk = [k \in 1..n |-> SeverityFile(FileName(k), profile[k])]

SpecSeverities == InitSeverities /\ [][NextScan]_vars

\* The security findings of the analysed files, file after file, and the
\* number of analysed files
AnalysedSecurityFindings ==
    LET keys == dict_keys(file_analyses)
    IN concat_all([k \in 1..Len(keys) |-> disk[keys[k]].security_findings], 1)

AnalysedFiles == Cardinality(DOMAIN file_analyses)

\* The sum of the severity weights of the security findings, in tenths
SecurityWeight ==
    sum_seq([k \in 1..Len(AnalysedSecurityFindings) |->
                severity_weight(AnalysedSecurityFindings[k])], 1)

AnalysedQualityFindings ==
    LET keys == dict_keys(file_analyses)
    IN sum_seq([k \in 1..Len(keys) |-> Len(disk[keys[k]].quality_findings)], 1)

MaxCleanSources == 2

CleanKeywords == <<0, 5>>
CleanQuality == <<0, 1>>
CleanTestStems ==
    << <<"t", "e", "s", "t", "_", "a", "a">>, <<"t", "e", "s", "t", "_", "a", "b">> >>

\* The source file of name stem whose keywords, quality findings and content
\* are the i-th combination of the choices, i counted from 0
CleanSource(stem, i) ==
    [path |-> PathOf(stem, <<".", "p", "y">>),
     fault |-> "none",
     content |-> ContentChoices[(i \div 4) + 1],
     pattern_scores |-> NoPatterns,
     security_findings |-> <<>>,
     performance_findings |-> <<>>,
     quality_findings |-> Findings(CleanQuality[(i % 2) + 1], "low"),
     keyword_count |-> CleanKeywords[((i \div 2) % 2) + 1],
     imports |-> <<>>]

\* A test file of comment lines only, without finding or keyword
CleanTest(stem) ==
    [path |-> PathOf(stem, <<".", "p", "y">>),
     fault |-> "none",
     content |-> ContentChoices[3],
     pattern_scores |-> NoPatterns,
     security_findings |-> <<>>,
     performance_findings |-> <<>>,
     quality_findings |-> <<>>,
     keyword_count |-> 0,
     imports |-> <<>>]

InitClean ==
    /\ IdleCycles
    /\ IdleWeb
    /\ IdleLanguage
    /\ IdleDup
    /\ IdleCollect
    /\ ScanStart
    /\ root_kind = "directory"
    /\ \E n \in 1..MaxCleanSources, tests \in SUBSET (1..Len(CleanTestStems)) :
          \E profile \in [1..n -> 0..(4 * Len(ContentChoices) - 1)] :
              LET test_stems == Unwrap(Pick(CleanTestStems, tests))
              IN disk = [k \in 1..n |-> CleanSource(FileName(k), profile[k])]
                        \o [k \in 1..Len(test_stems) |-> CleanTest(test_stems[k])]

SpecClean == InitClean /\ [][NextScan]_vars

\* After the scores: there are files, and no file has a security, performance
\* or quality finding, and there is no architecture issue and no testing gap
NoIssueAnywhere ==
    /\ AfterScores
    /\ AnalysedFiles > 0
    /\ \A f \in DOMAIN file_analyses :
          /\ disk[f].security_findings = <<>>
          /\ disk[f].performance_findings = <<>>
          /\ disk[f].quality_findings = <<>>
    /\ architecture_issues = <<>>
    /\ testing_gaps = <<>>

MaxPatternCount == 2

PatternLanguages == {"python", "java", "go"}

LanguagePaths ==
    { PathOf(<<"a">>, <<".", "t", "x", "t">>),
      PathOf(<<"a">>, <<>>),
      PathOf(<<"a">>, <<".", "p", "y">>),
      PathOf(<<"b">>, <<".", "g", "o">>) }

InitLanguage ==
    /\ lpc = "input"
    /\ lang_path \in LanguagePaths
    /\ \E counts \in [PatternLanguages -> 0..MaxPatternCount] :
          lang_scores = [lang \in Range(LanguageOrder) |->
                            IF lang \in PatternLanguages THEN counts[lang] ELSE 0]
    /\ detected_language = NoValue
    /\ IdleCycles
    /\ IdleWeb
    /\ IdleDup
    /\ IdleCollect
    /\ IdleScan

DetectFileLanguage ==
    /\ lpc = "input"
    /\ detected_language' = detect_file_language(lang_path, lang_scores)
    /\ lpc' = "returned"
    /\ UNCHANGED <<lang_path, lang_scores, cycleVars, dupVars, collectVars, scanVars,
                   webVars>>

NextLanguage == DetectFileLanguage

SpecLanguage == InitLanguage /\ [][NextLanguage]_vars

\* The extension of lang_path is in no language's list
NoExtensionMatch == language_by_extension(lower(path_suffix(lang_path)), 1) = 0

\* C24: _detect_file_language returns a value for every path and content;
\* when no extension matches it returns a language whose pattern count no
\* other exceeds, and 'unknown' when every count is zero.
C24_UnknownWhenNothingMatches ==
    lpc = "returned" =>
        /\ detected_language \in Range(LanguageOrder) \cup {"unknown"}
        /\ NoExtensionMatch =>
              IF \A lang \in Range(LanguageOrder) : lang_scores[lang] = 0
              THEN detected_language = "unknown"
              ELSE /\ detected_language \in Range(LanguageOrder)
                   /\ \A lang \in Range(LanguageOrder) :
                         lang_scores[lang] <= lang_scores[detected_language]

(***************************************************************************)
(* SpecRoots: the scan of the same files under roots of different names.   *)
(* root.rglob yields every path with the root's own path in front.         *)
(***************************************************************************)
MaxRootFiles == 3

ScanRoots == { <<"r">>, <<"t", "e", "s", "t">> }

RootedFile(root, stem) ==
    [CodeFile(stem, "none", <<>>) EXCEPT
        !.path = root \o <<"/">> \o stem \o <<".", "p", "y">>]

InitRoots ==
    /\ IdleCycles
    /\ IdleWeb
    /\ IdleLanguage
    /\ IdleDup
    /\ IdleCollect
    /\ ScanStart
    /\ root_kind = "directory"
    /\ \E root \in ScanRoots, n \in 1..MaxRootFiles,
          tests \in SUBSET (1..Len(CleanTestStems)) :
          LET test_stems == Unwrap(Pick(CleanTestStems, tests))
          IN disk = [k \in 1..n |-> RootedFile(root, FileName(k))]
                    \o [k \in 1..Len(test_stems) |-> RootedFile(root, test_stems[k])]

SpecRoots == InitRoots /\ [][NextScan]_vars

\* The path of an analysed file relative to the scan root; the files of this
\* family lie directly under the root
RelativePath(f) == path_name(disk[f].path)

RelativeTestFiles == {f \in DOMAIN file_analyses : is_test_path(RelativePath(f))}

\* The sources, by their relative paths, whose stem is in no test file's
\* relative path
RelativeUntestedSources ==
    {f \in DOMAIN file_analyses \ RelativeTestFiles :
        \A t \in RelativeTestFiles :
            ~IsSubstring(lower(path_stem(disk[f].path)), lower(RelativePath(t)))}

\* C25: the keys of file_analyses are pairwise distinct and are paths
\* relative to the scan root, without the root's own path, so which files
\* count as test files, and so which sources are reported as lacking tests,
\* does not depend on the name of the root.
C25_KeysRelativeToRoot ==
    AfterTesting =>
        /\ \A f, g \in DOMAIN file_analyses :
              f # g => file_analyses[f].filepath # file_analyses[g].filepath
        /\ \A f \in DOMAIN file_analyses : file_analyses[f].filepath = RelativePath(f)
        /\ \A f \in DOMAIN file_analyses :
              (\E k \in GapsOf("Missing Tests") : testing_gaps[k].file = f)
                  <=> f \in RelativeUntestedSources

\* The second half of C25 alone: the sources reported as lacking tests are
\* those that lack a test by their relative paths.
C25_ClassificationIgnoresRootName ==
    AfterTesting =>
        \A f \in DOMAIN file_analyses :
            (\E k \in GapsOf("Missing Tests") : testing_gaps[k].file = f)
                <=> f \in RelativeUntestedSources

(***************************************************************************)
(* Two runs on the same directory: the run the state machine makes, with   *)
(* the hash seed its interpreter drew, and a run with any seed computed    *)
(* stage by stage from the same disk.                                      *)
(***************************************************************************)
\* file_analyses of a run whose interpreter drew seed
file_analyses_of_run(seed) ==
    LET collected == collect_all_code_files(rglob_files(root_kind, disk))
        analysed == {f \in Range(collected) : disk[f].fault = "none"}
    IN [f \in analysed |-> analyze_single_file(disk[f], seed)]

relationships_of_run(seed) == analyze_cross_file_relationships(file_analyses_of_run(seed))

architecture_issues_of_run(seed) ==
    analyze_architecture(file_analyses_of_run(seed), relationships_of_run(seed))

\* C26: two runs of scan_codebase on a directory of identical contents
\* return identical results: the dependency lists, the order of every
\* relationship list and the cycles reported are those of a run with any
\* other hash seed.
C26_RunsOnSameContentsAgree ==
    pc = "done" =>
        \A seed \in HashSeeds :
            /\ returned.file_analyses = file_analyses_of_run(seed)
            /\ returned.cross_file_relationships = relationships_of_run(seed)
            /\ returned.architecture_issues = architecture_issues_of_run(seed)

\* C27: at every moment of _analyze_files_parallel, whichever analyses
\* failed, every entry of results is the FileAnalysis of the file whose path
\* is its key, namely the result of that file's own task; no entry is the
\* result of another file's task.
C27_ResultStoredUnderItsOwnPath ==
    pc \in {"batches", "relationships"} =>
        \A f \in DOMAIN results :
            /\ InList(f, all_files)
            /\ results[f].kind = "FileAnalysis"
            /\ results[f].filepath = disk[f].path
            /\ results[f] = tasks[IndexOf(all_files, f)].result

\* Twenty-one files, one of the first batch failed: the file of the second
\* batch is stored under its own path.
C27_Witness ==
    /\ pc = "relationships"
    /\ Len(all_files) = batch_size + 1
    /\ FaultyFiles(Faults) # {}
    /\ all_files[batch_size + 1] \in DOMAIN results
    /\ results[all_files[batch_size + 1]].filepath = disk[all_files[batch_size + 1]].path

\* The sum of the counts of a language histogram over the languages of S
RECURSIVE SumOfCounts(_, _)
SumOfCounts(counts, S) ==
    IF S = {} THEN 0
    ELSE LET lang == CHOOSE l \in S : TRUE
         IN counts[lang] + SumOfCounts(counts, S \ {lang})

MaxAnalyses == 2
MaxQueries == 2

Sessions == {"s1", "s2"}
Queries == {"security"}

EndsWith(s, suffix) ==
    Len(suffix) <= Len(s) /\ SubSeq(s, Len(s) - Len(suffix) + 1, Len(s)) = suffix

\* filename.endswith(('.py', '.js', '.java', '.ts', '.jsx', '.tsx'))
upload_suffixes ==
    { <<".", "p", "y">>, <<".", "j", "s">>, <<".", "j", "a", "v", "a">>, <<".", "t", "s">>,
      <<".", "j", "s", "x">>, <<".", "t", "s", "x">> }

is_supported_upload(filename) ==
    filename # <<>> /\ \E suffix \in upload_suffixes : EndsWith(filename, suffix)

\* detect_language of main.py
detect_language(filename) ==
    LET ext == lower(path_suffix(filename))
    IN CASE ext = <<".", "p", "y">> -> "python"
         [] ext \in { <<".", "j", "s">>, <<".", "j", "s", "x">> } -> "javascript"
         [] ext \in { <<".", "t", "s">>, <<".", "t", "s", "x">> } -> "typescript"
         [] ext = <<".", "j", "a", "v", "a">> -> "java"
         [] OTHER -> "unknown"

\* The file lists a client uploads: a file is [filename, content]
UploadLists ==
    { << [filename |-> <<"a", ".", "p", "y">>, content |-> "v1"] >>,
      << [filename |-> <<"n", ".", "t", "x", "t">>, content |-> "t"],
         [filename |-> <<"b", ".", "j", "s">>, content |-> "w"] >>,
      << [filename |-> <<"n", ".", "t", "x", "t">>, content |-> "t"] >> }

\* file_contexts of analyze_uploaded_files: the supported files of the list,
\* in the order of the list (the filenames of a list are distinct)
make_file_contexts(files) ==
    LET kept == SelectSeq(files, LAMBDA file : is_supported_upload(file.filename))
    IN [k \in 1..Len(kept) |->
           [filename |-> kept[k].filename,
            content |-> kept[k].content,
            language |-> detect_language(kept[k].filename)]]

\* The entry of analysis_results for a file: the analysis, or the error of
\* the inner except clause
analysis_result(file_info, failed) ==
    IF failed
    THEN [filename |-> file_info.filename, content |-> file_info.content,
          language |-> file_info.language, error |-> "Exception"]
    ELSE [filename |-> file_info.filename, content |-> file_info.content,
          language |-> file_info.language, analysis |-> "analysis"]

\* Lines 389-390 with the assignment of "results" left out
complete_context_without_results(context, analysis_results) ==
    [files |-> context.files, completed |-> TRUE]

\* Lines 389-390: context["results"] = analysis_results, then
\* context["completed"] = True
complete_context(context, analysis_results) ==
    [files |-> context.files, completed |-> TRUE, results |-> analysis_results]

\* generate_contextual_response: the answer is made of the query and of the
\* results that hold no error
generate_contextual_response(query, analysis_results) ==
    [query |-> query,
     about |-> SelectSeq(analysis_results, LAMBDA r : "error" \notin DOMAIN r)]

\* The analysis_ids whose context.get("completed") is true, in the order of
\* analysis_contexts.items()
available_contexts ==
    SelectSeq([k \in 1..Len(analysis_contexts) |-> k],
              LAMBDA k : analysis_contexts[k].completed)

\* The number of entries of all the lists of session_cache
QueriesStored ==
    LET RECURSIVE total(_)
        total(S) == IF S = {} THEN 0
                    ELSE LET s == CHOOSE x \in S : TRUE
                         IN Len(session_cache[s]) + total(S \ {s})
    IN total(DOMAIN session_cache)

webRest == <<cycleVars, dupVars, collectVars, scanVars, langVars>>

InitWeb ==
    /\ analysis_contexts = <<>>
    /\ analysis_cache = <<>>
    /\ session_cache = <<>>
    /\ background_tasks = <<>>
    /\ http_response = <<>>
    /\ uploaded_by = <<>>
    /\ IdleCycles
    /\ IdleLanguage
    /\ IdleDup
    /\ IdleCollect
    /\ IdleScan

\* analyze_uploaded_files (lines 281-349), a request of a client of session
\* `session`.  HTTPException(400) is raised inside the try and the except
\* clause turns it into a 500.
UploadFiles ==
    /\ Len(analysis_contexts) < MaxAnalyses
    /\ \E session \in Sessions, files \in UploadLists :
          LET file_contexts == make_file_contexts(files)
              analysis_id == Len(analysis_contexts) + 1
          IN IF file_contexts = <<>>
             THEN /\ http_response' = [status_code |-> 500]
                  /\ UNCHANGED <<analysis_contexts, analysis_cache, background_tasks,
                                 uploaded_by>>
             ELSE /\ analysis_contexts' =
                        Append(analysis_contexts,
                               [files |-> file_contexts, completed |-> FALSE])
                  /\ analysis_cache' =
                        Append(analysis_cache,
                               [status |-> "processing", has_results |-> FALSE])
                  /\ background_tasks' =
                        Append(background_tasks,
                               [pc |-> "added", file_contexts |-> file_contexts,
                                analysis_results |-> <<>>])
                  /\ uploaded_by' = Append(uploaded_by, session)
                  /\ http_response' = [status |-> "processing", analysis_id |-> analysis_id]
    /\ UNCHANGED <<webRest, session_cache>>

\* run_real_analysis up to the loop (line 358)
StartAnalysis ==
    \E id \in 1..Len(background_tasks) :
        /\ background_tasks[id].pc = "added"
        /\ analysis_cache' = [analysis_cache EXCEPT ![id].status = "analyzing"]
        /\ background_tasks' = [background_tasks EXCEPT ![id].pc = "files"]
        /\ UNCHANGED <<webRest, analysis_contexts, session_cache, http_response,
                       uploaded_by>>

\* One turn of the loop over file_contexts.items() (lines 362-386): the
\* analysis of the file, or the entry of the inner except clause
AnalyzeFile ==
    \E id \in 1..Len(background_tasks), failed \in BOOLEAN :
        LET task == background_tasks[id]
            k == Len(task.analysis_results) + 1
        IN /\ task.pc = "files"
           /\ k <= Len(task.file_contexts)
           /\ background_tasks' =
                 [background_tasks EXCEPT ![id].analysis_results =
                     Append(task.analysis_results,
                            analysis_result(task.file_contexts[k], failed))]
           /\ UNCHANGED <<webRest, analysis_contexts, analysis_cache, session_cache,
                          http_response, uploaded_by>>

\* Lines 389-418 after the last file: the context gets its results and is
\* completed, the cache entry is updated
FinishAnalysis ==
    \E id \in 1..Len(background_tasks) :
        LET task == background_tasks[id]
        IN /\ task.pc = "files"
           /\ Len(task.analysis_results) = Len(task.file_contexts)
           /\ analysis_contexts' =
                 [analysis_contexts EXCEPT ![id] =
                     complete_context(analysis_contexts[id], task.analysis_results)]
           /\ analysis_cache' =
                 [analysis_cache EXCEPT ![id] =
                     [status |-> "completed", has_results |-> TRUE]]
           /\ background_tasks' = [background_tasks EXCEPT ![id].pc = "returned"]
           /\ UNCHANGED <<webRest, session_cache, http_response, uploaded_by>>

\* An exception outside the inner try, before line 389: the outer except
\* clause (lines 417-423) records the failure
FailAnalysis ==
    \E id \in 1..Len(background_tasks) :
        /\ background_tasks[id].pc = "files"
        /\ analysis_cache' = [analysis_cache EXCEPT ![id].status = "failed"]
        /\ background_tasks' = [background_tasks EXCEPT ![id].pc = "returned"]
        /\ UNCHANGED <<webRest, analysis_contexts, session_cache, http_response,
                       uploaded_by>>

\* session_cache[session_id].append(entry), the list created when missing
append_to_session(session_id, entry) ==
    [s \in DOMAIN session_cache \cup {session_id} |->
        IF s = session_id
        THEN Append(IF s \in DOMAIN session_cache THEN session_cache[s] ELSE <<>>, entry)
        ELSE session_cache[s]]

\* interactive_query_with_context (lines 508-585)
ChatQuery ==
    /\ QueriesStored < MaxQueries
    /\ \E session_id \in Sessions, query \in Queries :
          IF available_contexts # <<>>
          THEN LET analysis_id == available_contexts[Len(available_contexts)]
                   context == analysis_contexts[analysis_id]
               IN IF "results" \notin DOMAIN context
                  THEN /\ http_response' = [status |-> "error", error |-> "KeyError"]
                       /\ UNCHANGED session_cache
                  ELSE LET response ==
                               generate_contextual_response(query, context.results)
                       IN /\ session_cache' =
                                append_to_session(session_id,
                                    [query |-> query, response |-> response,
                                     analysis_id |-> analysis_id])
                          /\ http_response' =
                                [status |-> "success", session_id |-> session_id,
                                 answer |-> response, has_context |-> TRUE]
          ELSE /\ session_cache' =
                     append_to_session(session_id,
                                       [query |-> query, response |-> "fallback"])
               /\ http_response' =
                     [status |-> "success", session_id |-> session_id,
                      answer |-> "fallback", has_context |-> FALSE]
    /\ UNCHANGED <<webRest, analysis_contexts, analysis_cache, background_tasks,
                   uploaded_by>>

NextWeb ==
    \/ UploadFiles
    \/ StartAnalysis
    \/ AnalyzeFile
    \/ FinishAnalysis
    \/ FailAnalysis
    \/ ChatQuery

SpecWeb == InitWeb /\ [][NextWeb]_vars

\* Every context marked completed holds its results
CompletedContextsHoldResults ==
    \A id \in 1..Len(analysis_contexts) :
        analysis_contexts[id].completed => "results" \in DOMAIN analysis_contexts[id]

\* No chat query ended in the except clause for a missing 'results'
NoQueryMissedResults ==
    "error" \in DOMAIN http_response => http_response.error # "KeyError"

\* A cache entry that is 'completed' or 'failed' keeps its status
TerminalStatusIsKept ==
    \A id \in 1..Len(analysis_cache) :
        analysis_cache[id].status \in {"completed", "failed"} =>
            analysis_cache'[id].status = analysis_cache[id].status

\* C29: every analysis context whose 'completed' is true already holds
\* 'results'; an analysis_cache entry that has reached 'completed' or
\* 'failed' never leaves that status; and a chat query that selects a
\* completed context never reads a missing 'results'.
C29_CompletedContextHoldsResults ==
    /\ [](CompletedContextsHoldResults /\ NoQueryMissedResults)
    /\ [][TerminalStatusIsKept]_vars

\* One analysis completed and answered a query from its results, the other
\* failed.
C29_Witness ==
    \E id, other \in 1..Len(analysis_contexts) :
        /\ analysis_contexts[id].completed
        /\ analysis_cache[id].status = "completed"
        /\ analysis_cache[other].status = "failed"
        /\ \E s \in DOMAIN session_cache :
              \E k \in 1..Len(session_cache[s]) :
                  /\ "analysis_id" \in DOMAIN session_cache[s][k]
                  /\ session_cache[s][k].analysis_id = id

\* C30: a chat query is answered from the most recent completed context of
\* the session that asks, so no answer stored for a session comes from the
\* upload of another session.
C30_AnswerFromOwnSessionsContext ==
    \A s \in DOMAIN session_cache :
        \A k \in 1..Len(session_cache[s]) :
            "analysis_id" \in DOMAIN session_cache[s][k] =>
                uploaded_by[session_cache[s][k].analysis_id] = s

====
